---- MODULE Spec2Model ----
(***************************************************************************)
(* A model of the coordination core of the Magician system:                *)
(*   - MagicianOrchestrator (src/core/orchestrator/service.py): the node   *)
(*     registry with its health snapshot, the task queue, the active-task  *)
(*     set and the results store;                                          *)
(*   - PathwayEngine (src/core/pathway_engine/engine.py): sequential and   *)
(*     parallel pathway runs with the per-step retry loop.                 *)
(* The code runs on one asyncio event loop: a coroutine runs without       *)
(* interruption until it awaits something that suspends it.  The variable  *)
(* cpu names the coroutine that currently runs; registry calls and other   *)
(* coroutines act only while no coroutine runs (cpu = NoHolder).           *)
(***************************************************************************)
EXTENDS Integers, Sequences, FiniteSets, TLC

(***************************************************************************)
(* Bounds of the model.                                                    *)
(***************************************************************************)
\* longest pathway (number of steps) a sequential run is given
MaxSteps == 2
\* longest pathway a parallel run is given
MaxBranches == 2
\* largest retry_count of a step
MaxRetry == 1

(***************************************************************************)
(* Data model (src/shared/models/__init__.py).                             *)
(***************************************************************************)
\* Python's None where a string is expected (Optional[str])
NoneValue == "None"

\* class TaskStatus; "skipped" is the status string of a skipped step result
SUCCESS == "success"
FAILURE == "failure"
SKIPPED == "skipped"

\* class MagicianType (two of its members)
MagicianTypes == {"business", "job"}

\* node ids used by the callers of register_node / unregister_node
NodeIds == {"n1"}

\* payload keys and values: a payload is a Python dict, here a function from
\* a set of keys to strings
PayloadKeys == {"flag", "message"}

EmptyDict == [k \in {} |-> ""]

\* dict.update / the overlay of one mapping with another
DictUpdate(p, q) ==
    [k \in (DOMAIN p) \cup (DOMAIN q) |-> IF k \in DOMAIN q THEN q[k] ELSE p[k]]

\* a Python object that is a dict, and the object None
PyDict(m) == [type |-> "dict", items |-> m]
PyNone == [type |-> "NoneType", items |-> EmptyDict]

\* PathwayStep.timeout and Task.timeout are Optional[int]: NoTimeout for None
NoTimeout == -1

\* the webhook_url the nodes of pathway runs register with
DefaultUrl == "http://node"

\* step references carried by on_failure: a step index, or NoStep for None
NoStep == -1

(***************************************************************************)
(* Step conditions.  A condition is a Python expression handed to eval     *)
(* with the payload as its local namespace; the expressions modelled are   *)
(*   none       no condition (None)                                        *)
(*   name       the expression  <key>          (a payload key)             *)
(*   assign     the expression  (<key> := '<value>')                       *)
(*   malformed  an expression that does not parse                          *)
(***************************************************************************)
NoCondition == [kind |-> "none", key |-> "", value |-> ""]
NameCondition(k) == [kind |-> "name", key |-> k, value |-> ""]
AssignCondition(k, v) == [kind |-> "assign", key |-> k, value |-> v]
MalformedCondition == [kind |-> "malformed", key |-> "", value |-> ""]

\* what eval leaves in the mapping it was given as locals
EvalEffect(condition, payload) ==
    IF condition.kind = "assign"
    THEN DictUpdate(payload, [k \in {condition.key} |-> condition.value])
    ELSE payload

\* PathwayEngine._evaluate_condition: bool(eval(...)), False on any exception
\* (a name that is no payload key raises NameError, a malformed expression
\* SyntaxError)
EvaluateCondition(condition, payload) ==
    CASE condition.kind = "name" ->
            IF condition.key \in DOMAIN payload
            THEN payload[condition.key] # ""
            ELSE FALSE
      [] condition.kind = "assign" -> condition.value # ""
      [] OTHER -> FALSE

(***************************************************************************)
(* State.                                                                  *)
(***************************************************************************)
VARIABLES
    registered_nodes,   \* MagicianOrchestrator.registered_nodes, in insertion order
    active_tasks,       \* MagicianOrchestrator.active_tasks (its keys)
    task_results,       \* MagicianOrchestrator.task_results
    active_pathways,    \* PathwayEngine.active_pathways: pathway_id -> run
    runs,               \* the calls of execute_pathway: run -> its frame
    cpu,                \* the coroutine that is running
    calls,              \* history: per pathway step, the execute_task calls it made
    task_queue,         \* MagicianOrchestrator.task_queue
    clock,              \* the wall clock read by datetime.utcnow(), in seconds
    node_heartbeat,     \* MagicianNode.last_heartbeat of the node objects
    running,            \* MagicianOrchestrator.running
    loop,               \* the call of start: its position and the task it executes
    direct,             \* the tasks of the direct execute_task calls in flight
    submitted,          \* history: the tasks given to submit_task, in order
    executed,           \* history: the execute_task calls of the loop, in order
    queued_at_stop      \* history: the queue at the last stop() of a running loop

orchVars == <<registered_nodes, active_tasks, task_results>>
engineVars == <<active_pathways, runs, calls>>
loopVars == <<running, loop, direct, executed, queued_at_stop>>
hostVars == <<task_queue, clock, node_heartbeat, submitted, loopVars>>
vars == <<registered_nodes, active_tasks, task_results, active_pathways, runs, cpu, calls,
          task_queue, clock, node_heartbeat, running, loop, direct, submitted, executed,
          queued_at_stop>>

\* no coroutine runs; the main coroutine of run r; the task of branch i of run r
NoHolder == <<0, -1>>
\* the coroutine of start
LoopHolder == <<-1, -1>>
\* the loop executes no task
NoTask == [task_id |-> NoneValue, magician_type |-> NoneValue, timeout |-> NoTimeout]
MainOf(r) == <<r, -1>>

\* the objects a run refers to: the caller's initial_payload, the copy made by
\* _execute_sequential, and the copy made for step i by _execute_parallel
InitialObj == <<"initial_payload", 0>>
RunningObj == <<"payload", 0>>
BranchObj(i) == <<"copy", i>>

(***************************************************************************)
(* Node registry (MagicianOrchestrator).                                   *)
(***************************************************************************)
NodeIndex(nodes, n) ==
    IF \E k \in 1..Len(nodes) : nodes[k].node_id = n
    THEN CHOOSE k \in 1..Len(nodes) : nodes[k].node_id = n
    ELSE 0

\* mutant of DictSet: the entry is added at the end whether or not the key is
\* present
DictSetAppending(nodes, n, entry) == Append(nodes, entry)


\* mutant of DictSet: the entry is written a key at a time and is in the
\* registry when only its first three keys are there
DictSetKeywise(nodes, n, entry) ==
    LET part == [node_id |-> entry.node_id, magician_type |-> entry.magician_type,
                 webhook_url |-> entry.webhook_url]
        k == NodeIndex(nodes, n)
    IN IF k = 0 THEN Append(nodes, part) ELSE [nodes EXCEPT ![k] = part]

\* `self.registered_nodes[node_id] = {...}`: a key already present keeps its
\* place in the dict and gets the new value
DictSet(nodes, n, entry) ==
    LET k == NodeIndex(nodes, n)
    IN IF k = 0 THEN Append(nodes, entry) ELSE [nodes EXCEPT ![k] = entry]

\* mutant of DictDel: the entry deleted is the last one
DictDelLast(nodes, n) == SubSeq(nodes, 1, Len(nodes) - 1)

\* `del self.registered_nodes[node_id]`: the other keys keep their order
DictDel(nodes, n) ==
    LET k == NodeIndex(nodes, n)
    IN [j \in 1..(Len(nodes) - 1) |-> IF j < k THEN nodes[j] ELSE nodes[j + 1]]

\* register_node.  The entry reads the clock twice, registered_at first;
\* elapsed is the time that passes between the two readings
RegisterNode(n, t, webhook_url, metadata, elapsed) ==
    /\ cpu = NoHolder
    /\ LET entry == [node_id |-> n, magician_type |-> t,
                     webhook_url |-> webhook_url,
                     metadata |-> IF metadata.type = "NoneType" \/ metadata.items = EmptyDict
                                  THEN EmptyDict ELSE metadata.items,
                     status |-> "active",
                     registered_at |-> clock,
                     last_heartbeat |-> clock + elapsed]
       IN registered_nodes' = DictSet(registered_nodes, n, entry)
    /\ clock' = clock + elapsed
    /\ UNCHANGED <<active_tasks, task_results, engineVars, cpu, task_queue, node_heartbeat,
                   submitted, loopVars>>

\* the value register_node returns
RegisterNodeReturn == TRUE

\* unregister_node, the registry it leaves: `if node_id in
\* self.registered_nodes: del ...`
Unregistered(nodes, n) ==
    IF NodeIndex(nodes, n) = 0 THEN nodes ELSE DictDel(nodes, n)

\* unregister_node
UnregisterNode(n) ==
    /\ cpu = NoHolder
    /\ registered_nodes' = Unregistered(registered_nodes, n)
    /\ UNCHANGED <<hostVars, active_tasks, task_results, engineVars, cpu>>

\* mutant of GetNodesByType: the type is not looked at
GetNodesOfAnyType(nodes, t) == nodes

\* get_nodes_by_type
GetNodesByType(nodes, t) ==
    SelectSeq(nodes, LAMBDA node : node.magician_type = t)

\* get_task_result: the result stored under the id, or None
GetTaskResult(task_id) ==
    IF task_id \in DOMAIN task_results THEN task_results[task_id] ELSE NoneValue

\* the simulated invocation, `await asyncio.sleep(0.1)`, in tenths of a second
InvocationTenths == 1

\* the error of execute_task's no-nodes result
NoNodesError(t) == "No " \o t \o " nodes available"

\* the result payload of execute_task's success result
SuccessResult == [k \in {"message"} |-> "Task executed successfully"]

\* the value unregister_node returns for the registry it is called in
UnregisterNodeReturn(nodes, n) == NodeIndex(nodes, n) # 0

\* mutant of Enqueue: the task joins the queue at its head
EnqueueAtHead(queue, task) == <<task>> \o queue

\* `self.task_queue.append(task)`
Enqueue(queue, task) == Append(queue, task)

\* submit_task: the task joins the queue at its tail
SubmitTask(task) ==
    /\ cpu = NoHolder
    /\ task_queue' = Enqueue(task_queue, task)
    /\ submitted' = Append(submitted, task)
    /\ UNCHANGED <<orchVars, engineVars, cpu, clock, node_heartbeat, loopVars>>

\* the value submit_task returns
SubmitTaskReturn(task) == task.task_id

\* the node entry's last_heartbeat where the key is missing or None
NoHeartbeat == -1

\* the thresholds of healthcheck_nodes, in seconds
HealthyBelow == 30
DegradedBelow == 60

\* mutant of HealthStatusOf: the thresholds belong to the healthier class
HealthStatusInclusive(last_heartbeat, current_time) ==
    IF last_heartbeat # NoHeartbeat
    THEN LET time_since_heartbeat == current_time - last_heartbeat
         IN IF time_since_heartbeat <= HealthyBelow THEN "healthy"
            ELSE IF time_since_heartbeat <= DegradedBelow THEN "degraded"
            ELSE "unhealthy"
    ELSE "unhealthy"

\* healthcheck_nodes, the status of one node
HealthStatusOf(last_heartbeat, current_time) ==
    IF last_heartbeat # NoHeartbeat
    THEN LET time_since_heartbeat == current_time - last_heartbeat
         IN IF time_since_heartbeat < HealthyBelow THEN "healthy"
            ELSE IF time_since_heartbeat < DegradedBelow THEN "degraded"
            ELSE "unhealthy"
    ELSE "unhealthy"

\* healthcheck_nodes: the HealthCheck of every registered node, by node id
HealthcheckNodes(nodes, current_time) ==
    [n \in {nodes[k].node_id : k \in 1..Len(nodes)} |->
        LET node_info == nodes[NodeIndex(nodes, n)]
        IN [node_id |-> n,
            status |-> HealthStatusOf(node_info.last_heartbeat, current_time),
            uptime_seconds |-> current_time - node_info.registered_at,
            last_heartbeat |-> node_info.last_heartbeat]]

\* mutant of Heartbeat: the heartbeat also stamps the node's registry entry
HeartbeatStampsRegistry(n) ==
    /\ node_heartbeat' = [m \in (DOMAIN node_heartbeat) \cup {n} |->
                             IF m = n THEN clock ELSE node_heartbeat[m]]
    /\ registered_nodes' = [k \in 1..Len(registered_nodes) |->
                               IF registered_nodes[k].node_id = n
                               THEN [registered_nodes[k] EXCEPT !.last_heartbeat = clock]
                               ELSE registered_nodes[k]]
    /\ UNCHANGED <<active_tasks, task_results, engineVars, cpu, task_queue, clock,
                   submitted, loopVars>>

\* MagicianNode.heartbeat: the node object stamps its own last_heartbeat; the
\* orchestrator is not called
Heartbeat(n) ==
    /\ node_heartbeat' = [m \in (DOMAIN node_heartbeat) \cup {n} |->
                             IF m = n THEN clock ELSE node_heartbeat[m]]
    /\ UNCHANGED <<orchVars, engineVars, cpu, task_queue, clock, submitted, loopVars>>

\* time passes, up to the horizon of the specification
Tick(d, horizon) ==
    /\ clock + d <= horizon
    /\ clock' = clock + d
    /\ UNCHANGED <<orchVars, engineVars, cpu, task_queue, node_heartbeat, submitted, loopVars>>

(***************************************************************************)
(* The dispatcher loop and direct execution (MagicianOrchestrator).        *)
(***************************************************************************)
\* the result execute_task stores and returns for a task it invoked
SuccessTaskResult(task) ==
    [task_id |-> task.task_id, status |-> SUCCESS,
     result |-> SuccessResult, error |-> NoneValue]

\* `self.task_results[task.task_id] = result`
StoreResult(results, result) ==
    [t \in (DOMAIN results) \cup {result.task_id} |->
        IF t = result.task_id THEN result ELSE results[t]]

\* the history of the loop with its pending call completed
LoopReturned(log, outcome) == [log EXCEPT ![Len(log)].outcome = outcome]

\* start, lines 237-238: the loop is entered
Start ==
    /\ cpu = NoHolder
    /\ loop.pc = "idle"
    /\ running' = TRUE
    /\ loop' = [loop EXCEPT !.pc = "outer"]
    /\ cpu' = LoopHolder
    /\ UNCHANGED <<orchVars, engineVars, task_queue, clock, node_heartbeat, submitted,
                   direct, executed, queued_at_stop>>

\* stop: the flag is cleared
Stop ==
    /\ cpu = NoHolder
    /\ running' = FALSE
    /\ queued_at_stop' = IF loop.pc \in {"idle", "exited"} THEN queued_at_stop
                         ELSE task_queue
    /\ UNCHANGED <<orchVars, engineVars, cpu, task_queue, clock, node_heartbeat, submitted,
                   loop, direct, executed>>

\* `while self.running` (line 240): the loop goes on to the queue or returns
LoopTest ==
    /\ cpu = LoopHolder
    /\ loop.pc = "outer"
    /\ loop' = [loop EXCEPT !.pc = IF running THEN "inner" ELSE "exited"]
    /\ cpu' = IF running THEN LoopHolder ELSE NoHolder
    /\ UNCHANGED <<orchVars, engineVars, task_queue, clock, node_heartbeat, submitted,
                   running, direct, executed, queued_at_stop>>

\* mutant of Dequeue: the loop takes the task at the tail
DequeueAtTail(queue) ==
    [task |-> queue[Len(queue)], rest |-> SubSeq(queue, 1, Len(queue) - 1)]

\* `task = self.task_queue.pop(0)`
Dequeue(queue) == [task |-> Head(queue), rest |-> Tail(queue)]

\* `while self.task_queue` (lines 242-244) with a task queued for whose type
\* no node is registered: the task is taken and execute_task returns its
\* failure result without suspending (lines 128-147, 186-188)
LoopExecuteNoNodes ==
    /\ cpu = LoopHolder
    /\ loop.pc = "inner"
    /\ task_queue # <<>>
    /\ LET task == Dequeue(task_queue).task
       IN /\ GetNodesByType(registered_nodes, task.magician_type) = <<>>
          /\ task_queue' = Dequeue(task_queue).rest
          /\ active_tasks' = active_tasks \ {task.task_id}
          /\ executed' = Append(executed, [task |-> task, node_id |-> NoneValue,
                                           outcome |-> FAILURE])
    /\ UNCHANGED <<registered_nodes, task_results, engineVars, cpu, clock, node_heartbeat,
                   submitted, running, loop, direct, queued_at_stop>>

\* `while self.task_queue` with a task queued for whose type a node is
\* registered: the task is taken, becomes active, and the loop suspends in the
\* invocation (lines 128-159)
LoopExecuteInvoke ==
    /\ cpu = LoopHolder
    /\ loop.pc = "inner"
    /\ task_queue # <<>>
    /\ LET task == Dequeue(task_queue).task
           nodes == GetNodesByType(registered_nodes, task.magician_type)
       IN /\ nodes # <<>>
          /\ task_queue' = Dequeue(task_queue).rest
          /\ active_tasks' = active_tasks \cup {task.task_id}
          /\ executed' = Append(executed, [task |-> task, node_id |-> nodes[1].node_id,
                                           outcome |-> "pending"])
          /\ loop' = [pc |-> "invoking", task |-> task]
    /\ cpu' = NoHolder
    /\ UNCHANGED <<registered_nodes, task_results, engineVars, clock, node_heartbeat,
                   submitted, running, direct, queued_at_stop>>

\* the invocation of the loop's task returns: the success result is stored,
\* the task leaves the active set (lines 161-171, 186-188) and the loop looks
\* at the queue again
LoopInvokeReturn ==
    /\ cpu = NoHolder
    /\ loop.pc = "invoking"
    /\ task_results' = StoreResult(task_results, SuccessTaskResult(loop.task))
    /\ active_tasks' = active_tasks \ {loop.task.task_id}
    /\ executed' = LoopReturned(executed, SUCCESS)
    /\ loop' = [pc |-> "inner", task |-> NoTask]
    /\ cpu' = LoopHolder
    /\ UNCHANGED <<registered_nodes, engineVars, task_queue, clock, node_heartbeat,
                   submitted, running, direct, queued_at_stop>>

\* the queue is empty: `await asyncio.sleep(0.1)` (line 246)
LoopSleep ==
    /\ cpu = LoopHolder
    /\ loop.pc = "inner"
    /\ task_queue = <<>>
    /\ loop' = [loop EXCEPT !.pc = "sleeping"]
    /\ cpu' = NoHolder
    /\ UNCHANGED <<orchVars, engineVars, task_queue, clock, node_heartbeat, submitted,
                   running, direct, executed, queued_at_stop>>

\* the sleep ends and the loop tests the flag again
LoopWake ==
    /\ cpu = NoHolder
    /\ loop.pc = "sleeping"
    /\ loop' = [loop EXCEPT !.pc = "outer"]
    /\ cpu' = LoopHolder
    /\ UNCHANGED <<orchVars, engineVars, task_queue, clock, node_heartbeat, submitted,
                   running, direct, executed, queued_at_stop>>

\* execute_task called directly on a task for whose type no node is
\* registered: the failure result is returned without suspending
DirectExecuteNoNodes(task) ==
    /\ cpu = NoHolder
    /\ GetNodesByType(registered_nodes, task.magician_type) = <<>>
    /\ active_tasks' = active_tasks \ {task.task_id}
    /\ UNCHANGED <<registered_nodes, task_results, engineVars, cpu, hostVars>>

\* execute_task called directly on a task for whose type a node is
\* registered: the task becomes active and the call suspends in the invocation
DirectExecuteInvoke(task) ==
    /\ cpu = NoHolder
    /\ task \notin direct
    /\ GetNodesByType(registered_nodes, task.magician_type) # <<>>
    /\ active_tasks' = active_tasks \cup {task.task_id}
    /\ direct' = direct \cup {task}
    /\ UNCHANGED <<registered_nodes, task_results, engineVars, cpu, task_queue, clock,
                   node_heartbeat, submitted, running, loop, executed, queued_at_stop>>

\* the invocation of a direct call returns
DirectInvokeReturn(task) ==
    /\ cpu = NoHolder
    /\ task \in direct
    /\ task_results' = StoreResult(task_results, SuccessTaskResult(task))
    /\ active_tasks' = active_tasks \ {task.task_id}
    /\ direct' = direct \ {task}
    /\ UNCHANGED <<registered_nodes, engineVars, cpu, task_queue, clock,
                   node_heartbeat, submitted, running, loop, executed, queued_at_stop>>

\* GET /api/v1/tasks/{task_id}: the stored result, in_progress for an active
\* task, or 404
NotFound == "404"
ApiGetTaskResult(task_id) ==
    IF task_id \in DOMAIN task_results THEN task_results[task_id].status
    ELSE IF task_id \in active_tasks THEN "in_progress"
    ELSE NotFound

(***************************************************************************)
(* Pathway runs (PathwayEngine).                                           *)
(***************************************************************************)
\* f"{pathway_id}_step_{step_index}"
StepTaskId(pathway_id, i) == <<pathway_id, "_step_", i>>

StepsOf(r) == runs[r].pathway.steps
StepAt(r, i) == StepsOf(r)[i + 1]
IsParallel(r) == runs[r].pathway.parallel

\* the coroutine that executes step i of run r: in sequential mode the run's
\* own coroutine (a plain await), in parallel mode a task of its own (gather)
HolderOf(r, i) == IF IsParallel(r) THEN <<r, i>> ELSE MainOf(r)

\* the frame of a call of _execute_step that has not returned anything yet.
\* Beside the locals it keeps two history fields: error_of, the number of the
\* attempt whose error last_error holds, and waits, the number of backoff
\* sleeps begun
NoResult(i) == [step_index |-> i, status |-> "pending"]
NewFrame(i, obj) ==
    [pc |-> "entry", payload |-> obj, task_payload |-> EmptyDict,
     retry_count |-> 0, last_error |-> NoneValue, ret |-> NoResult(i),
     error_of |-> 0, waits |-> 0]

\* execute_pathway, lines 44-75: the context is created and indexed, and the
\* mode is chosen.  Beside the locals of the call the run keeps the exception
\* that is propagating, if any, and two history fields: given, the value of
\* initial_payload at the call, and returned, the step indices in the order in
\* which their _execute_step calls returned
ExecutePathway(r, pathway, initial_payload) ==
    /\ cpu = NoHolder
    /\ r \notin DOMAIN runs
    /\ runs' = runs @@ (r :>
          [pathway |-> pathway,
           pc |-> IF pathway.parallel THEN "parallel" ELSE "sequential",
           idx |-> 0,
           results |-> <<>>,
           execution_context |->
              [pathway_id |-> pathway.pathway_id, steps |-> <<>>,
               status |-> "running", error |-> NoneValue, completed_at |-> FALSE],
           frames |-> <<>>,
           heap |-> (InitialObj :> initial_payload),
           exception |-> NoneValue,
           given |-> initial_payload,
           returned |-> <<>>])
    /\ active_pathways' =
          [p \in (DOMAIN active_pathways) \cup {pathway.pathway_id} |->
              IF p = pathway.pathway_id THEN r ELSE active_pathways[p]]
    /\ cpu' = MainOf(r)
    /\ UNCHANGED <<hostVars, orchVars, calls>>


\* _execute_sequential, lines 121-122: results = [], payload = initial_payload.copy()
\* (None has no copy: AttributeError, caught by execute_pathway)
SeqStart(r) ==
    /\ r \in DOMAIN runs
    /\ cpu = MainOf(r)
    /\ runs[r].pc = "sequential"
    /\ runs' = IF runs[r].heap[InitialObj].type = "dict"
               THEN [runs EXCEPT ![r].pc = "seq_loop",
                                 ![r].results = <<>>,
                                 ![r].heap = @ @@ (RunningObj :> @[InitialObj])]
               ELSE [runs EXCEPT ![r].pc = "except",
                                 ![r].exception = "AttributeError"]
    /\ UNCHANGED <<hostVars, orchVars, active_pathways, calls, cpu>>

\* mutant of SeqLoop: the step is started but not awaited, and the loop goes on
\* to the next index at once
SeqLoopNoAwait(r) ==
    /\ r \in DOMAIN runs
    /\ cpu = MainOf(r)
    /\ runs[r].pc = "seq_loop"
    /\ runs' = IF runs[r].idx < Len(runs[r].pathway.steps)
               THEN [runs EXCEPT ![r].idx = @ + 1,
                                 ![r].frames = @ @@ (runs[r].idx :>
                                     NewFrame(runs[r].idx, RunningObj))]
               ELSE [runs EXCEPT ![r].pc = "return"]
    /\ UNCHANGED <<hostVars, orchVars, active_pathways, calls, cpu>>

\* _execute_sequential, lines 124-130 and 155: the loop calls _execute_step for
\* step idx with the running payload, or returns the results after the last step
SeqLoop(r) ==
    /\ r \in DOMAIN runs
    /\ cpu = MainOf(r)
    /\ runs[r].pc = "seq_loop"
    /\ runs' = IF runs[r].idx < Len(StepsOf(r))
               THEN [runs EXCEPT ![r].pc = "await_step",
                                 ![r].frames = @ @@ (runs[r].idx :> NewFrame(runs[r].idx, RunningObj))]
               ELSE [runs EXCEPT ![r].pc = "return"]
    /\ UNCHANGED <<hostVars, orchVars, active_pathways, calls, cpu>>

\* the three shapes of a step result (lines 223-229, 249-256, 281-287)
SkippedResult(i, step) ==
    [step_index |-> i, magician |-> step.magician, status |-> SKIPPED,
     reason |-> "condition_not_met"]
SuccessStepResult(i, step, result) ==
    [step_index |-> i, magician |-> step.magician, status |-> SUCCESS,
     result |-> result]
FailureStepResult(i, step, error) ==
    [step_index |-> i, magician |-> step.magician, status |-> FAILURE,
     error |-> error]

\* `if step.condition:` (line 216)
HasCondition(step) == step.condition.kind # "none"

\* _execute_step, lines 209-238: the condition is evaluated against the payload
\* object the step was given; a step whose condition is not met returns a
\* skipped result, any other step builds its Task
StepEntry(r, i) ==
    /\ r \in DOMAIN runs
    /\ i \in DOMAIN runs[r].frames
    /\ runs[r].frames[i].pc = "entry"
    /\ cpu = IF IsParallel(r) THEN NoHolder ELSE MainOf(r)
    /\ LET step == StepAt(r, i)
           frame == runs[r].frames[i]
           payload == runs[r].heap[frame.payload].items
           after == IF HasCondition(step) THEN EvalEffect(step.condition, payload)
                    ELSE payload
           met == ~HasCondition(step) \/ EvaluateCondition(step.condition, payload)
       IN /\ runs' = [runs EXCEPT
                ![r].returned = IF met THEN @ ELSE Append(@, i),
                ![r].heap[frame.payload] = PyDict(after),
                ![r].frames[i] =
                    IF met
                    THEN [frame EXCEPT !.pc = "retry_loop", !.task_payload = after,
                                       !.retry_count = 0, !.last_error = NoneValue]
                    ELSE [frame EXCEPT !.pc = "returned", !.ret = SkippedResult(i, step)]]
          /\ cpu' = IF met THEN HolderOf(r, i)
                    ELSE IF IsParallel(r) THEN NoHolder ELSE MainOf(r)
    /\ UNCHANGED <<hostVars, orchVars, active_pathways, calls>>

\* the history of the execute_task calls of step i of run r, and that history
\* with one more call
CallsOf(log, r, i) == IF <<r, i>> \in DOMAIN log THEN log[<<r, i>>] ELSE <<>>
Logged(log, r, i, entry) ==
    [k \in (DOMAIN log) \cup {<<r, i>>} |->
        IF k = <<r, i>> THEN Append(CallsOf(log, r, i), entry) ELSE log[k]]

\* mutant of RetryGuard: the loop gives up one attempt early
RetryGuardOffByOne(retry_count, step) == retry_count < step.retry_count

\* `while retry_count <= step.retry_count` (line 244)
RetryGuard(retry_count, step) == retry_count <= step.retry_count

\* mutant of BackoffGuard: the loop sleeps after every failed attempt
BackoffAlways(retry_count, step) == TRUE

\* `if retry_count <= step.retry_count` before the backoff sleep (line 261)
BackoffGuard(retry_count, step) == retry_count <= step.retry_count

\* mutant of KeepLastError: only the first error is kept
KeepFirstError(frame, error, attempt) ==
    IF frame.last_error = NoneValue
    THEN [frame EXCEPT !.last_error = error, !.error_of = attempt]
    ELSE frame

\* `last_error = result.error` (line 258)
KeepLastError(frame, error, attempt) ==
    [frame EXCEPT !.last_error = error, !.error_of = attempt]

\* one attempt of the retry loop for which execute_task finds no node of the
\* step's type: execute_task (service.py lines 128-147, 186-188) returns a
\* failure result without suspending and without storing it; the loop (lines
\* 257-266) keeps the error, counts the attempt and sleeps before the next one
ExecuteNoNodes(r, i) ==
    /\ r \in DOMAIN runs
    /\ i \in DOMAIN runs[r].frames
    /\ runs[r].frames[i].pc = "retry_loop"
    /\ cpu = HolderOf(r, i)
    /\ LET step == StepAt(r, i)
           frame == runs[r].frames[i]
           task_id == StepTaskId(runs[r].pathway.pathway_id, i)
           retry_count == frame.retry_count + 1
       IN /\ RetryGuard(frame.retry_count, step)
          /\ GetNodesByType(registered_nodes, step.magician) = <<>>
          /\ active_tasks' = active_tasks \ {task_id}
          /\ calls' = Logged(calls, r, i, [task_id |-> task_id, node_id |-> NoneValue,
                                           invocations |-> 0,
                                           timeout |-> step.timeout,
                                           outcome |-> FAILURE,
                                           error |-> NoNodesError(step.magician)])
          /\ runs' = [runs EXCEPT ![r].frames[i] =
                [KeepLastError(frame, NoNodesError(step.magician),
                               Len(CallsOf(calls, r, i)) + 1)
                   EXCEPT !.retry_count = retry_count,
                          !.waits = IF BackoffGuard(retry_count, step)
                                    THEN @ + 1 ELSE @,
                          !.pc = IF BackoffGuard(retry_count, step)
                                 THEN "backoff" ELSE "retry_loop"]]
          /\ cpu' = IF BackoffGuard(retry_count, step) THEN NoHolder ELSE cpu
    /\ UNCHANGED <<hostVars, registered_nodes, task_results, active_pathways>>

\* mutant of ExecuteInvoke: the call invokes the selected node a second time
\* when the first invocation ends
ExecuteInvokeTwice(r, i) ==
    /\ r \in DOMAIN runs
    /\ i \in DOMAIN runs[r].frames
    /\ runs[r].frames[i].pc = "retry_loop"
    /\ cpu = HolderOf(r, i)
    /\ LET step == StepAt(r, i)
           frame == runs[r].frames[i]
           task_id == StepTaskId(runs[r].pathway.pathway_id, i)
           nodes == GetNodesByType(registered_nodes, step.magician)
       IN /\ RetryGuard(frame.retry_count, step)
          /\ nodes # <<>>
          /\ active_tasks' = active_tasks \cup {task_id}
          /\ calls' = Logged(calls, r, i, [task_id |-> task_id,
                                           node_id |-> nodes[1].node_id,
                                           invocations |-> 2,
                                           timeout |-> step.timeout,
                                           outcome |-> "pending",
                                           error |-> NoneValue])
          /\ runs' = [runs EXCEPT ![r].frames[i].pc = "invoking"]
          /\ cpu' = NoHolder
    /\ UNCHANGED <<hostVars, registered_nodes, task_results, active_pathways>>

\* one attempt of the retry loop for which execute_task finds a node: the task
\* is active, the first node of its type is selected and the coroutine
\* suspends in the invocation (service.py lines 128-159)
ExecuteInvoke(r, i) ==
    /\ r \in DOMAIN runs
    /\ i \in DOMAIN runs[r].frames
    /\ runs[r].frames[i].pc = "retry_loop"
    /\ cpu = HolderOf(r, i)
    /\ LET step == StepAt(r, i)
           frame == runs[r].frames[i]
           task_id == StepTaskId(runs[r].pathway.pathway_id, i)
           nodes == GetNodesByType(registered_nodes, step.magician)
       IN /\ RetryGuard(frame.retry_count, step)
          /\ nodes # <<>>
          /\ active_tasks' = active_tasks \cup {task_id}
          /\ calls' = Logged(calls, r, i, [task_id |-> task_id,
                                           node_id |-> nodes[1].node_id,
                                           invocations |-> 1,
                                           timeout |-> step.timeout,
                                           outcome |-> "pending",
                                           error |-> NoneValue])
          /\ runs' = [runs EXCEPT ![r].frames[i].pc = "invoking"]
          /\ cpu' = NoHolder
    /\ UNCHANGED <<hostVars, registered_nodes, task_results, active_pathways>>

\* the history of step i of run r with its pending call completed
CallReturned(log, r, i, outcome) ==
    [log EXCEPT ![<<r, i>>] = [@ EXCEPT ![Len(@)].outcome = outcome]]

\* the invocation returns: execute_task stores and returns a success result
\* and removes the task from the active set (service.py lines 161-171,
\* 186-188); _execute_step returns a success step result (lines 248-256)
InvokeReturn(r, i) ==
    /\ r \in DOMAIN runs
    /\ i \in DOMAIN runs[r].frames
    /\ runs[r].frames[i].pc = "invoking"
    /\ cpu = NoHolder
    /\ LET step == StepAt(r, i)
           task_id == StepTaskId(runs[r].pathway.pathway_id, i)
           result == [task_id |-> task_id, status |-> SUCCESS,
                      result |-> SuccessResult, error |-> NoneValue]
       IN /\ task_results' =
                [t \in (DOMAIN task_results) \cup {task_id} |->
                    IF t = task_id THEN result ELSE task_results[t]]
          /\ active_tasks' = active_tasks \ {task_id}
          /\ calls' = CallReturned(calls, r, i, SUCCESS)
          /\ runs' = [runs EXCEPT
                ![r].returned = Append(@, i),
                ![r].frames[i].pc = "returned",
                ![r].frames[i].ret = SuccessStepResult(i, step, result.result)]
          /\ cpu' = IF IsParallel(r) THEN NoHolder ELSE MainOf(r)
    /\ UNCHANGED <<hostVars, registered_nodes, active_pathways>>

\* the backoff sleep ends (line 266) and the loop tests its guard again
BackoffDone(r, i) ==
    /\ r \in DOMAIN runs
    /\ i \in DOMAIN runs[r].frames
    /\ runs[r].frames[i].pc = "backoff"
    /\ cpu = NoHolder
    /\ runs' = [runs EXCEPT ![r].frames[i].pc = "retry_loop"]
    /\ cpu' = HolderOf(r, i)
    /\ UNCHANGED <<hostVars, orchVars, active_pathways, calls>>

\* the loop guard fails: all retries exhausted, a failure step result with the
\* last error (lines 280-287)
RetriesExhausted(r, i) ==
    /\ r \in DOMAIN runs
    /\ i \in DOMAIN runs[r].frames
    /\ runs[r].frames[i].pc = "retry_loop"
    /\ cpu = HolderOf(r, i)
    /\ ~RetryGuard(runs[r].frames[i].retry_count, StepAt(r, i))
    /\ runs' = [runs EXCEPT
          ![r].returned = Append(@, i),
          ![r].frames[i].pc = "returned",
          ![r].frames[i].ret =
              FailureStepResult(i, StepAt(r, i), runs[r].frames[i].last_error)]
    /\ cpu' = IF IsParallel(r) THEN NoHolder ELSE MainOf(r)
    /\ UNCHANGED <<hostVars, orchVars, active_pathways, calls>>

\* `await self._execute_step(...)` has a value (line 125)
StepReturned(frame) == frame.pc = "returned"

\* mutant of HasOnFailure: the field is ignored, every failed step ends the loop
HasOnFailureIgnored(step) == FALSE

\* `if step.on_failure:` (line 137)
HasOnFailure(step) == step.on_failure # NoStep

\* mutant of StopsRun: a failed step never ends the loop
StopsRunNever(step_result, step) == FALSE

\* the loop leaves at `break` (lines 136-149)
StopsRun(step_result, step) ==
    step_result.status = FAILURE /\ ~HasOnFailure(step)

\* mutant of RecordStep: the recorded results are replaced by the new one
RecordStepReplacing(steps, step_result) == <<step_result>>

\* `execution_context["steps"].append(step_result)` (lines 133, 187)
RecordStep(steps, step_result) == Append(steps, step_result)

\* `if step_result.get("result"): payload.update(step_result["result"])`
\* (lines 152-153)
MergeResult(payload, step_result) ==
    IF "result" \in DOMAIN step_result /\ step_result.result # EmptyDict
    THEN DictUpdate(payload, step_result.result)
    ELSE payload

\* _execute_sequential, lines 132-153: the step result is recorded; a failed
\* step without on_failure ends the loop, any other step is followed by the
\* next index, after the result payload of the step was merged
SeqStepDone(r) ==
    /\ r \in DOMAIN runs
    /\ cpu = MainOf(r)
    /\ runs[r].pc = "await_step"
    /\ StepReturned(runs[r].frames[runs[r].idx])
    /\ LET idx == runs[r].idx
           step == StepAt(r, idx)
           step_result == runs[r].frames[idx].ret
           stop == StopsRun(step_result, step)
       IN runs' = [runs EXCEPT
             ![r].results = Append(@, step_result),
             ![r].execution_context.steps = RecordStep(@, step_result),
             ![r].heap[RunningObj] =
                 IF stop THEN @ ELSE PyDict(MergeResult(@.items, step_result)),
             ![r].idx = IF stop THEN @ ELSE @ + 1,
             ![r].pc = IF stop THEN "return" ELSE "seq_loop"]
    /\ UNCHANGED <<hostVars, orchVars, active_pathways, calls, cpu>>

\* mutant of StatusOnReturn: the status is left as it was
StatusStaysRunning(results) == "running"

\* mutant of StatusOnReturn: a run with a failed step is reported as failed
StatusFailedOnStepFailure(results) ==
    IF \E k \in 1..Len(results) : results[k].status = FAILURE
    THEN "failed" ELSE "completed"

\* the status execute_pathway gives a run whose steps were orchestrated
\* without an exception (line 77)
StatusOnReturn(results) == "completed"

\* `if pathway_id in self.active_pathways: del ...` (lines 102-103)
Evict(index, pathway_id) ==
    [p \in (DOMAIN index) \ {pathway_id} |-> index[p]]

\* execute_pathway, lines 77-86 and 101-103
Complete(r) ==
    /\ r \in DOMAIN runs
    /\ cpu = MainOf(r)
    /\ runs[r].pc = "return"
    /\ runs' = [runs EXCEPT
          ![r].execution_context.status = StatusOnReturn(runs[r].results),
          ![r].execution_context.completed_at = TRUE,
          ![r].pc = "done"]
    /\ active_pathways' = Evict(active_pathways, runs[r].pathway.pathway_id)
    /\ cpu' = NoHolder
    /\ UNCHANGED <<hostVars, orchVars, calls>>

\* mutant of Fail: the handler lets the exception go on to the caller
FailPropagates(r) ==
    /\ r \in DOMAIN runs
    /\ cpu = MainOf(r)
    /\ runs[r].pc = "except"
    /\ runs' = [runs EXCEPT ![r].pc = "done"]
    /\ active_pathways' = Evict(active_pathways, runs[r].pathway.pathway_id)
    /\ cpu' = NoHolder
    /\ UNCHANGED <<hostVars, orchVars, calls>>

\* execute_pathway, lines 88-103: an exception escaped the orchestration
Fail(r) ==
    /\ r \in DOMAIN runs
    /\ cpu = MainOf(r)
    /\ runs[r].pc = "except"
    /\ runs' = [runs EXCEPT
          ![r].execution_context.status = "failed",
          ![r].execution_context.error = runs[r].exception,
          ![r].execution_context.completed_at = TRUE,
          ![r].pc = "done"]
    /\ active_pathways' = Evict(active_pathways, runs[r].pathway.pathway_id)
    /\ cpu' = NoHolder
    /\ UNCHANGED <<hostVars, orchVars, calls>>

\* get_pathway_status: the context indexed under the id, or None
GetPathwayStatus(pathway_id) ==
    IF pathway_id \in DOMAIN active_pathways
    THEN runs[active_pathways[pathway_id]].execution_context
    ELSE NoneValue

\* _execute_parallel, lines 173-184: one call of _execute_step per step, each
\* with a copy of the initial payload of its own (None has no copy:
\* AttributeError at the first step), all handed to asyncio.gather
ParStart(r) ==
    /\ r \in DOMAIN runs
    /\ cpu = MainOf(r)
    /\ runs[r].pc = "parallel"
    /\ LET n == Len(StepsOf(r))
           initial == runs[r].heap[InitialObj]
       IN IF n > 0 /\ initial.type # "dict"
          THEN /\ runs' = [runs EXCEPT ![r].pc = "except",
                                       ![r].exception = "AttributeError"]
               /\ cpu' = cpu
          ELSE /\ runs' = [runs EXCEPT
                     ![r].pc = "gather",
                     ![r].heap = @ @@ [o \in {BranchObj(i) : i \in 0..(n - 1)} |-> initial],
                     ![r].frames = [i \in 0..(n - 1) |-> NewFrame(i, BranchObj(i))]]
               /\ cpu' = IF n = 0 THEN cpu ELSE NoHolder
    /\ UNCHANGED <<hostVars, orchVars, active_pathways, calls>>

\* mutant of GatherResults: the results in the order in which the branches
\* returned
GatherAsCompleted(r) ==
    [k \in 1..Len(runs[r].returned) |-> runs[r].frames[runs[r].returned[k]].ret]

\* the list asyncio.gather returns: one entry per step, in the order the
\* calls were handed to it
GatherResults(r) ==
    [k \in 1..Len(runs[r].pathway.steps) |-> runs[r].frames[k - 1].ret]

\* `for result in results: execution_context["steps"].append(result)`
\* (lines 186-187)
RECURSIVE RecordAll(_, _)
RecordAll(steps, results) ==
    IF results = <<>> THEN steps
    ELSE RecordAll(RecordStep(steps, Head(results)), Tail(results))

\* mutant of ParGather: gather gives up at the first branch that returned a
\* failure result and raises, leaving the other branches where they are
ParGatherFirstFailure(r) ==
    /\ r \in DOMAIN runs
    /\ runs[r].pc = "gather"
    /\ cpu = IF Len(StepsOf(r)) = 0 THEN MainOf(r) ELSE NoHolder
    /\ IF \E i \in DOMAIN runs[r].frames :
             /\ runs[r].frames[i].pc = "returned"
             /\ runs[r].frames[i].ret.status = FAILURE
       THEN runs' = [runs EXCEPT ![r].pc = "except", ![r].exception = "StepFailed"]
       ELSE /\ \A i \in DOMAIN runs[r].frames : runs[r].frames[i].pc = "returned"
            /\ runs' = [runs EXCEPT
                  ![r].results = GatherResults(r),
                  ![r].execution_context.steps = @ \o GatherResults(r),
                  ![r].pc = "return"]
    /\ cpu' = MainOf(r)
    /\ UNCHANGED <<hostVars, orchVars, active_pathways, calls>>

\* _execute_parallel, lines 184-189: gather returns once every branch has
\* returned; its results are appended to the context's steps
ParGather(r) ==
    /\ r \in DOMAIN runs
    /\ runs[r].pc = "gather"
    /\ cpu = IF Len(StepsOf(r)) = 0 THEN MainOf(r) ELSE NoHolder
    /\ \A i \in DOMAIN runs[r].frames : StepReturned(runs[r].frames[i])
    /\ LET results == GatherResults(r)
       IN runs' = [runs EXCEPT
             ![r].results = results,
             ![r].execution_context.steps = RecordAll(@, results),
             ![r].pc = "return"]
    /\ cpu' = MainOf(r)
    /\ UNCHANGED <<hostVars, orchVars, active_pathways, calls>>

(***************************************************************************)
(* Inputs.                                                                 *)
(***************************************************************************)
RetryCounts == 0..MaxRetry

StepConditions == {NoCondition, NameCondition("flag"), AssignCondition("flag", "")}

\* the PathwaySteps the runs are given: business steps of every retry_count
\* without a condition and business steps with a condition, each with and
\* without on_failure, and a job step
StepShapes(refs) ==
    {[magician |-> "business", retry_count |-> rc, condition |-> NoCondition,
      on_failure |-> f, timeout |-> NoTimeout] : rc \in RetryCounts, f \in refs}
    \cup
    {[magician |-> "business", retry_count |-> 0, condition |-> c,
      on_failure |-> f, timeout |-> NoTimeout] : c \in StepConditions \ {NoCondition}, f \in refs}
    \cup
    {[magician |-> "job", retry_count |-> 0, condition |-> NoCondition,
      on_failure |-> NoStep, timeout |-> NoTimeout]}

SeqOfLength(S, n) == [1..n -> S]

Pathways(parallel, shapes, lengths) ==
    {[pathway_id |-> "p1", parallel |-> parallel, steps |-> steps] :
        steps \in UNION {SeqOfLength(shapes, n) : n \in lengths}}

\* sequential pathways of at most MaxSteps steps; on_failure, where set, names
\* the step at index 1
SeqPathways == Pathways(FALSE, StepShapes({NoStep, 1}), 0..MaxSteps)

\* the steps of parallel pathways: those above without on_failure, and a step
\* whose condition assigns a payload key and is met
ParStepShapes ==
    StepShapes({NoStep})
    \cup
    {[magician |-> "business", retry_count |-> 0,
      condition |-> AssignCondition("flag", "set"), on_failure |-> NoStep, timeout |-> NoTimeout]}

\* parallel pathways of at most MaxBranches steps
ParPathways == Pathways(TRUE, ParStepShapes, 0..MaxBranches)

\* sequential pathways of three steps; on_failure, where set, names the step
\* at index 2
RoutePathways == Pathways(FALSE, StepShapes({NoStep, 2}), {3})
RouteIndices == {0, 1, 2}

\* the parallel pathways of the runs checked for progress: business steps of
\* every retry_count, and a business step with a condition
ParFairPathways ==
    Pathways(TRUE,
             {[magician |-> "business", retry_count |-> rc, condition |-> c,
               on_failure |-> NoStep, timeout |-> NoTimeout] :
                  rc \in RetryCounts, c \in {NoCondition}}
             \cup
             {[magician |-> "business", retry_count |-> 0,
               condition |-> NameCondition("flag"), on_failure |-> NoStep, timeout |-> NoTimeout]},
             0..MaxBranches)

\* pathways of either mode
AllPathways == SeqPathways \cup ParPathways

\* the pathways of runs that overlap: one business step without a condition,
\* in either mode, under one of two pathway ids
OverlapPathwayIds == {"p1", "p2"}
OverlapPathways ==
    {[pathway_id |-> id, parallel |-> par,
      steps |-> <<[magician |-> "business", retry_count |-> rc,
                   condition |-> NoCondition, on_failure |-> NoStep, timeout |-> NoTimeout]>>] :
        id \in OverlapPathwayIds, par \in BOOLEAN, rc \in RetryCounts}
OverlapRuns == {1, 2}
OverlapIndices == {0}

InitialPayloads ==
    {PyNone, PyDict(EmptyDict),
     PyDict([k \in PayloadKeys |-> IF k = "flag" THEN "yes" ELSE "hello"])}

Runs == {1}

(***************************************************************************)
(* Specifications.                                                         *)
(***************************************************************************)
Init ==
    /\ registered_nodes = <<>>
    /\ active_tasks = {}
    /\ task_results = <<>>
    /\ active_pathways = <<>>
    /\ runs = <<>>
    /\ cpu = NoHolder
    /\ calls = <<>>
    /\ task_queue = <<>>
    /\ clock = 0
    /\ node_heartbeat = <<>>
    /\ running = FALSE
    /\ loop = [pc |-> "idle", task |-> NoTask]
    /\ direct = {}
    /\ submitted = <<>>
    /\ executed = <<>>
    /\ queued_at_stop = <<>>

\* step indices of the longest pathway
StepIndices == 0..(IF MaxSteps > MaxBranches THEN MaxSteps ELSE MaxBranches)

\* sequential pathway runs
Next ==
    \/ \E n \in NodeIds, t \in MagicianTypes : RegisterNode(n, t, DefaultUrl, PyNone, 0)
    \/ \E n \in NodeIds : UnregisterNode(n)
    \/ \E r \in Runs : r \notin DOMAIN runs /\
          \E pathway \in SeqPathways, payload \in InitialPayloads :
             ExecutePathway(r, pathway, payload)
    \/ \E r \in Runs : SeqStart(r)
    \/ \E r \in Runs : SeqLoop(r)
    \/ \E r \in Runs, i \in StepIndices : StepEntry(r, i)
    \/ \E r \in Runs, i \in StepIndices : ExecuteNoNodes(r, i)
    \/ \E r \in Runs, i \in StepIndices : ExecuteInvoke(r, i)
    \/ \E r \in Runs, i \in StepIndices : InvokeReturn(r, i)
    \/ \E r \in Runs, i \in StepIndices : BackoffDone(r, i)
    \/ \E r \in Runs, i \in StepIndices : RetriesExhausted(r, i)
    \/ \E r \in Runs : SeqStepDone(r)
    \/ \E r \in Runs : Complete(r)
    \/ \E r \in Runs : Fail(r)

Spec == Init /\ [][Next]_vars

\* parallel pathway runs
NextPar ==
    \/ \E n \in NodeIds, t \in MagicianTypes : RegisterNode(n, t, DefaultUrl, PyNone, 0)
    \/ \E n \in NodeIds : UnregisterNode(n)
    \/ \E r \in Runs : r \notin DOMAIN runs /\
          \E pathway \in ParPathways, payload \in InitialPayloads :
             ExecutePathway(r, pathway, payload)
    \/ \E r \in Runs : ParStart(r)
    \/ \E r \in Runs, i \in StepIndices : StepEntry(r, i)
    \/ \E r \in Runs, i \in StepIndices : ExecuteNoNodes(r, i)
    \/ \E r \in Runs, i \in StepIndices : ExecuteInvoke(r, i)
    \/ \E r \in Runs, i \in StepIndices : InvokeReturn(r, i)
    \/ \E r \in Runs, i \in StepIndices : BackoffDone(r, i)
    \/ \E r \in Runs, i \in StepIndices : RetriesExhausted(r, i)
    \/ \E r \in Runs : ParGather(r)
    \/ \E r \in Runs : Complete(r)
    \/ \E r \in Runs : Fail(r)

SpecPar == Init /\ [][NextPar]_vars

\* the steps of the coroutines of a parallel run.  The event loop runs every
\* coroutine that is ready and every sleep ends, so a run that can take a step
\* eventually takes one
ParEngineStep ==
    \/ \E r \in Runs : ParStart(r)
    \/ \E r \in Runs, i \in StepIndices : StepEntry(r, i)
    \/ \E r \in Runs, i \in StepIndices : ExecuteNoNodes(r, i)
    \/ \E r \in Runs, i \in StepIndices : ExecuteInvoke(r, i)
    \/ \E r \in Runs, i \in StepIndices : InvokeReturn(r, i)
    \/ \E r \in Runs, i \in StepIndices : BackoffDone(r, i)
    \/ \E r \in Runs, i \in StepIndices : RetriesExhausted(r, i)
    \/ \E r \in Runs : ParGather(r)
    \/ \E r \in Runs : Complete(r)
    \/ \E r \in Runs : Fail(r)

NextParFair ==
    \/ \E n \in NodeIds, t \in MagicianTypes : RegisterNode(n, t, DefaultUrl, PyNone, 0)
    \/ \E n \in NodeIds : UnregisterNode(n)
    \/ \E r \in Runs : r \notin DOMAIN runs /\
          \E pathway \in ParFairPathways, payload \in InitialPayloads :
             ExecutePathway(r, pathway, payload)
    \/ \E r \in Runs : ParStart(r)
    \/ \E r \in Runs, i \in StepIndices : StepEntry(r, i)
    \/ \E r \in Runs, i \in StepIndices : ExecuteNoNodes(r, i)
    \/ \E r \in Runs, i \in StepIndices : ExecuteInvoke(r, i)
    \/ \E r \in Runs, i \in StepIndices : InvokeReturn(r, i)
    \/ \E r \in Runs, i \in StepIndices : BackoffDone(r, i)
    \/ \E r \in Runs, i \in StepIndices : RetriesExhausted(r, i)
    \/ \E r \in Runs : ParGather(r)
    \/ \E r \in Runs : Complete(r)
    \/ \E r \in Runs : Fail(r)

SpecParFair == Init /\ [][NextParFair]_vars /\ WF_vars(ParEngineStep)

\* sequential runs of three-step pathways whose on_failure, where set, names
\* the last step
NextRoute ==
    \/ \E n \in NodeIds, t \in MagicianTypes : RegisterNode(n, t, DefaultUrl, PyNone, 0)
    \/ \E n \in NodeIds : UnregisterNode(n)
    \/ \E r \in Runs : r \notin DOMAIN runs /\
          \E pathway \in RoutePathways, payload \in InitialPayloads :
             ExecutePathway(r, pathway, payload)
    \/ \E r \in Runs : SeqStart(r)
    \/ \E r \in Runs : SeqLoop(r)
    \/ \E r \in Runs, i \in RouteIndices : StepEntry(r, i)
    \/ \E r \in Runs, i \in RouteIndices : ExecuteNoNodes(r, i)
    \/ \E r \in Runs, i \in RouteIndices : ExecuteInvoke(r, i)
    \/ \E r \in Runs, i \in RouteIndices : InvokeReturn(r, i)
    \/ \E r \in Runs, i \in RouteIndices : BackoffDone(r, i)
    \/ \E r \in Runs, i \in RouteIndices : RetriesExhausted(r, i)
    \/ \E r \in Runs : SeqStepDone(r)
    \/ \E r \in Runs : Complete(r)
    \/ \E r \in Runs : Fail(r)

SpecRoute == Init /\ [][NextRoute]_vars

\* runs of pathways of either mode
NextAll ==
    \/ \E n \in NodeIds, t \in MagicianTypes : RegisterNode(n, t, DefaultUrl, PyNone, 0)
    \/ \E n \in NodeIds : UnregisterNode(n)
    \/ \E r \in Runs : r \notin DOMAIN runs /\
          \E pathway \in AllPathways, payload \in InitialPayloads :
             ExecutePathway(r, pathway, payload)
    \/ \E r \in Runs : SeqStart(r)
    \/ \E r \in Runs : SeqLoop(r)
    \/ \E r \in Runs : ParStart(r)
    \/ \E r \in Runs, i \in StepIndices : StepEntry(r, i)
    \/ \E r \in Runs, i \in StepIndices : ExecuteNoNodes(r, i)
    \/ \E r \in Runs, i \in StepIndices : ExecuteInvoke(r, i)
    \/ \E r \in Runs, i \in StepIndices : InvokeReturn(r, i)
    \/ \E r \in Runs, i \in StepIndices : BackoffDone(r, i)
    \/ \E r \in Runs, i \in StepIndices : RetriesExhausted(r, i)
    \/ \E r \in Runs : SeqStepDone(r)
    \/ \E r \in Runs : ParGather(r)
    \/ \E r \in Runs : Complete(r)
    \/ \E r \in Runs : Fail(r)

SpecAll == Init /\ [][NextAll]_vars

\* two calls of execute_pathway that may overlap: the second may be made
\* whenever the first is suspended
NextOverlap ==
    \/ \E n \in NodeIds, t \in MagicianTypes : RegisterNode(n, t, DefaultUrl, PyNone, 0)
    \/ \E n \in NodeIds : UnregisterNode(n)
    \/ \E r \in OverlapRuns : r \notin DOMAIN runs /\
          \E pathway \in OverlapPathways, payload \in InitialPayloads :
             ExecutePathway(r, pathway, payload)
    \/ \E r \in OverlapRuns : SeqStart(r)
    \/ \E r \in OverlapRuns : SeqLoop(r)
    \/ \E r \in OverlapRuns : ParStart(r)
    \/ \E r \in OverlapRuns, i \in OverlapIndices : StepEntry(r, i)
    \/ \E r \in OverlapRuns, i \in OverlapIndices : ExecuteNoNodes(r, i)
    \/ \E r \in OverlapRuns, i \in OverlapIndices : ExecuteInvoke(r, i)
    \/ \E r \in OverlapRuns, i \in OverlapIndices : InvokeReturn(r, i)
    \/ \E r \in OverlapRuns, i \in OverlapIndices : BackoffDone(r, i)
    \/ \E r \in OverlapRuns, i \in OverlapIndices : RetriesExhausted(r, i)
    \/ \E r \in OverlapRuns : SeqStepDone(r)
    \/ \E r \in OverlapRuns : ParGather(r)
    \/ \E r \in OverlapRuns : Complete(r)
    \/ \E r \in OverlapRuns : Fail(r)

SpecOverlap == Init /\ [][NextOverlap]_vars


\* dispatch among several nodes: two node ids that register, register again
\* and unregister while time passes, and one run of a one-step pathway
DispatchHorizon == 2
DispatchNodeIds == {"n1", "n2"}
DispatchTimeouts == {NoTimeout, 0}
DispatchPathways ==
    {[pathway_id |-> "p1", parallel |-> FALSE,
      steps |-> <<[magician |-> "business", retry_count |-> rc,
                   condition |-> NoCondition, on_failure |-> NoStep,
                   timeout |-> timeout]>>] :
        rc \in RetryCounts, timeout \in DispatchTimeouts}
DispatchPayloads == {PyNone, PyDict(EmptyDict)}
DispatchIndices == {0}

NextDispatch ==
    \/ \E n \in DispatchNodeIds, t \in MagicianTypes :
          RegisterNode(n, t, DefaultUrl, PyNone, 0)
    \/ \E n \in DispatchNodeIds : UnregisterNode(n)
    \/ \E d \in {1} : Tick(d, DispatchHorizon)
    \/ \E r \in Runs : r \notin DOMAIN runs /\
          \E pathway \in DispatchPathways, payload \in DispatchPayloads :
             ExecutePathway(r, pathway, payload)
    \/ \E r \in Runs : SeqStart(r)
    \/ \E r \in Runs : SeqLoop(r)
    \/ \E r \in Runs, i \in DispatchIndices : StepEntry(r, i)
    \/ \E r \in Runs, i \in DispatchIndices : ExecuteNoNodes(r, i)
    \/ \E r \in Runs, i \in DispatchIndices : ExecuteInvoke(r, i)
    \/ \E r \in Runs, i \in DispatchIndices : InvokeReturn(r, i)
    \/ \E r \in Runs, i \in DispatchIndices : BackoffDone(r, i)
    \/ \E r \in Runs, i \in DispatchIndices : RetriesExhausted(r, i)
    \/ \E r \in Runs : SeqStepDone(r)
    \/ \E r \in Runs : Complete(r)
    \/ \E r \in Runs : Fail(r)

SpecDispatch == Init /\ [][NextDispatch]_vars


\* calls of register_node and unregister_node for two node ids.  The clock
\* matters to these calls only as the stamps of register_node, and advances
\* between the two readings of a call; a call stamps two equal times or two
\* successive ones
RegistryHorizon == 2
RegistryNodeIds == {"n1", "n2"}
RegistryUrls == {"http://a", "http://b"}
RegistryMetadata == {PyNone, PyDict([k \in {"region"} |-> "eu"])}
RegistryElapsed == {0, 1}

NextRegistry ==
    \/ \E n \in RegistryNodeIds, t \in MagicianTypes, url \in RegistryUrls,
          metadata \in RegistryMetadata, elapsed \in RegistryElapsed :
          clock + elapsed <= RegistryHorizon /\ RegisterNode(n, t, url, metadata, elapsed)
    \/ \E n \in RegistryNodeIds : UnregisterNode(n)

SpecRegistry == Init /\ [][NextRegistry]_vars


\* health snapshots: two business nodes register, register again and
\* unregister while up to HealthHorizon seconds pass; a snapshot is taken in
\* every state
HealthHorizon == 61
HealthNodeIds == {"n1", "n2"}
HealthTicks == {15, 29, 30}
HealthElapsed == {0, 1}

NextHealth ==
    \/ \E n \in HealthNodeIds, elapsed \in HealthElapsed :
          clock + elapsed <= HealthHorizon
             /\ RegisterNode(n, "business", DefaultUrl, PyNone, elapsed)
    \/ \E n \in HealthNodeIds : UnregisterNode(n)
    \/ \E d \in HealthTicks : Tick(d, HealthHorizon)

SpecHealth == Init /\ [][NextHealth]_vars


\* heartbeats: two business nodes register and unregister and their node
\* objects send heartbeats while up to HealthHorizon seconds pass
HeartbeatTicks == {29, 30}

NextHeartbeat ==
    \/ \E n \in HealthNodeIds : RegisterNode(n, "business", DefaultUrl, PyNone, 0)
    \/ \E n \in HealthNodeIds : UnregisterNode(n)
    \/ \E n \in HealthNodeIds : Heartbeat(n)
    \/ \E d \in HeartbeatTicks : Tick(d, HealthHorizon)

SpecHeartbeat == Init /\ [][NextHeartbeat]_vars


\* submissions: tasks of two ids and both types are submitted, up to MaxQueue
\* of them, while a node registers and unregisters
MaxQueue == 3
QueueTaskIds == {"t1", "t2"}
QueueTasks ==
    {[task_id |-> id, magician_type |-> t, timeout |-> NoTimeout] :
        id \in QueueTaskIds, t \in MagicianTypes}

NextQueue ==
    \/ \E n \in NodeIds, t \in MagicianTypes : RegisterNode(n, t, DefaultUrl, PyNone, 0)
    \/ \E n \in NodeIds : UnregisterNode(n)
    \/ \E task \in QueueTasks : Len(task_queue) < MaxQueue /\ SubmitTask(task)

SpecQueue == Init /\ [][NextQueue]_vars


\* the dispatcher: business tasks of distinct ids are submitted, the loop is started
\* and stopped, tasks are also executed directly, and a node registers and
\* unregisters
LoopTasks == {task \in QueueTasks : task.magician_type = "business"}
NewTask(task) == \A k \in 1..Len(submitted) : submitted[k].task_id # task.task_id

NextLoop ==
    \/ \E n \in NodeIds, t \in MagicianTypes : RegisterNode(n, t, DefaultUrl, PyNone, 0)
    \/ \E n \in NodeIds : UnregisterNode(n)
    \/ \E task \in LoopTasks : NewTask(task) /\ SubmitTask(task)
    \/ Start
    \/ Stop
    \/ LoopTest
    \/ LoopExecuteNoNodes
    \/ LoopExecuteInvoke
    \/ LoopInvokeReturn
    \/ LoopSleep
    \/ LoopWake
    \/ \E task \in LoopTasks : DirectExecuteNoNodes(task)
    \/ \E task \in LoopTasks : DirectExecuteInvoke(task)
    \/ \E task \in LoopTasks : DirectInvokeReturn(task)

SpecLoop == Init /\ [][NextLoop]_vars

\* the steps of the loop's coroutine, which the event loop runs whenever it
\* is ready; nothing in the program calls start, so Start has no such promise
LoopStep ==
    \/ LoopTest
    \/ LoopExecuteNoNodes
    \/ LoopExecuteInvoke
    \/ LoopInvokeReturn
    \/ LoopSleep
    \/ LoopWake

SpecLoopFair == Init /\ [][NextLoop]_vars /\ WF_vars(LoopStep)


\* step conditions: sequential runs of business steps that all carry a
\* condition: a payload key that is present, one that is missing, an
\* assignment expression, or an expression that does not parse
CondConditions ==
    {NameCondition("flag"), NameCondition("missing"), AssignCondition("flag", "set"),
     AssignCondition("flag", ""), MalformedCondition}
CondPathways ==
    Pathways(FALSE,
             {[magician |-> "business", retry_count |-> rc, condition |-> c,
               on_failure |-> NoStep, timeout |-> NoTimeout] :
                 rc \in RetryCounts, c \in CondConditions},
             0..MaxSteps)

NextCond ==
    \/ \E n \in NodeIds, t \in MagicianTypes : RegisterNode(n, t, DefaultUrl, PyNone, 0)
    \/ \E n \in NodeIds : UnregisterNode(n)
    \/ \E r \in Runs : r \notin DOMAIN runs /\
          \E pathway \in CondPathways, payload \in InitialPayloads :
             ExecutePathway(r, pathway, payload)
    \/ \E r \in Runs : SeqStart(r)
    \/ \E r \in Runs : SeqLoop(r)
    \/ \E r \in Runs, i \in StepIndices : StepEntry(r, i)
    \/ \E r \in Runs, i \in StepIndices : ExecuteNoNodes(r, i)
    \/ \E r \in Runs, i \in StepIndices : ExecuteInvoke(r, i)
    \/ \E r \in Runs, i \in StepIndices : InvokeReturn(r, i)
    \/ \E r \in Runs, i \in StepIndices : BackoffDone(r, i)
    \/ \E r \in Runs, i \in StepIndices : RetriesExhausted(r, i)
    \/ \E r \in Runs : SeqStepDone(r)
    \/ \E r \in Runs : Complete(r)
    \/ \E r \in Runs : Fail(r)

SpecCond == Init /\ [][NextCond]_vars

\* runs of one-step pathways whose step has any retry_count PathwayStep
\* accepts: the field is an int without a lower bound, so a negative count is
\* among them
MinRetry == -1
RetryPathways ==
    {[pathway_id |-> "p1", parallel |-> FALSE,
      steps |-> <<[magician |-> "business", retry_count |-> rc,
                   condition |-> condition, on_failure |-> NoStep,
                   timeout |-> NoTimeout]>>] :
        rc \in MinRetry..MaxRetry, condition \in StepConditions}

NextRetry ==
    \/ \E n \in NodeIds, t \in MagicianTypes : RegisterNode(n, t, DefaultUrl, PyNone, 0)
    \/ \E n \in NodeIds : UnregisterNode(n)
    \/ \E r \in Runs : r \notin DOMAIN runs /\
          \E pathway \in RetryPathways, payload \in InitialPayloads :
             ExecutePathway(r, pathway, payload)
    \/ \E r \in Runs : SeqStart(r)
    \/ \E r \in Runs : SeqLoop(r)
    \/ \E r \in Runs, i \in DispatchIndices : StepEntry(r, i)
    \/ \E r \in Runs, i \in DispatchIndices : ExecuteNoNodes(r, i)
    \/ \E r \in Runs, i \in DispatchIndices : ExecuteInvoke(r, i)
    \/ \E r \in Runs, i \in DispatchIndices : InvokeReturn(r, i)
    \/ \E r \in Runs, i \in DispatchIndices : BackoffDone(r, i)
    \/ \E r \in Runs, i \in DispatchIndices : RetriesExhausted(r, i)
    \/ \E r \in Runs : SeqStepDone(r)
    \/ \E r \in Runs : Complete(r)
    \/ \E r \in Runs : Fail(r)

SpecRetry == Init /\ [][NextRetry]_vars


(***************************************************************************)
(* Properties.                                                             *)
(***************************************************************************)
SeqRuns == {r \in DOMAIN runs : ~IsParallel(r)}
ParRuns == {r \in DOMAIN runs : IsParallel(r)}
Finished(r) == runs[r].pc \in {"return", "done"}
Outcomes(log) == [k \in 1..Len(log) |-> log[k].outcome]
AllFailures(n) == [k \in 1..n |-> FAILURE]

\* C1: a step whose retry loop has returned made exactly k execute_task calls
\* when the k-th was its first successful one (k <= retry_count + 1, the
\* calls before it all failed and none follows it), and exactly
\* retry_count + 1 calls, all failed, when it returned a failure result
RetryLoopAttempts ==
    \A r \in DOMAIN runs : \A i \in DOMAIN runs[r].frames :
        LET frame == runs[r].frames[i]
            log == CallsOf(calls, r, i)
            n == Len(log)
            rc == StepAt(r, i).retry_count
        IN /\ \A k \in 1..n : log[k].outcome = SUCCESS =>
                 k = n /\ frame.pc = "returned" /\ frame.ret.status = SUCCESS
           /\ frame.pc = "returned" /\ frame.ret.status = SUCCESS =>
                 /\ n \in 1..(rc + 1)
                 /\ Outcomes(log) = Append(AllFailures(n - 1), SUCCESS)
           /\ frame.pc = "returned" /\ frame.ret.status = FAILURE =>
                 /\ n = rc + 1
                 /\ Outcomes(log) = AllFailures(n)

\* C1 witness: one step succeeded at its second attempt and another step, with
\* retry_count >= 1, returned a failure after retry_count + 1 attempts
RetryLoopAttemptsWitness ==
    \E r \in DOMAIN runs : \E i, j \in DOMAIN runs[r].frames :
        /\ runs[r].frames[i].pc = "returned"
        /\ runs[r].frames[i].ret.status = SUCCESS
        /\ Len(CallsOf(calls, r, i)) = 2
        /\ runs[r].frames[j].pc = "returned"
        /\ runs[r].frames[j].ret.status = FAILURE
        /\ StepAt(r, j).retry_count >= 1
        /\ Len(CallsOf(calls, r, j)) = StepAt(r, j).retry_count + 1

\* C2: in a sequential run a step is started only after every step of smaller
\* index has been started and its retry loop has returned, so at most one step
\* of the run is inside its retry loop and at most one execute_task call of
\* the run is in flight
SequentialOrder ==
    \A r \in SeqRuns :
        /\ \A j \in DOMAIN runs[r].frames : \A i \in 0..(j - 1) :
              i \in DOMAIN runs[r].frames /\ runs[r].frames[i].pc = "returned"
        /\ \A i \in DOMAIN runs[r].frames :
              CallsOf(calls, r, i) # <<>> =>
                 \A h \in 0..(i - 1) : h \in DOMAIN runs[r].frames
        /\ Cardinality({i \in DOMAIN runs[r].frames :
                           runs[r].frames[i].pc = "invoking"}) <= 1
        /\ Cardinality({i \in DOMAIN runs[r].frames :
                           \E k \in 1..Len(CallsOf(calls, r, i)) :
                              CallsOf(calls, r, i)[k].outcome = "pending"}) <= 1

\* C2 witness: the second step's call is in flight after the first step went
\* through a failed attempt and a backoff wait
SequentialOrderWitness ==
    \E r \in SeqRuns :
        /\ {0, 1} \subseteq DOMAIN runs[r].frames
        /\ Len(CallsOf(calls, r, 0)) >= 2
        /\ runs[r].frames[1].pc = "invoking"

\* C3: once a step of a sequential run has failed after exhausting its retries
\* and has no on_failure, no step of greater index is ever started, and the
\* finished run's step results are exactly the results of steps 0..k
HaltOnFailure ==
    \A r \in SeqRuns : \A k \in DOMAIN runs[r].frames :
        LET frame == runs[r].frames[k]
        IN (/\ frame.pc = "returned"
            /\ frame.ret.status = FAILURE
            /\ StepAt(r, k).on_failure = NoStep)
           => /\ \A j \in DOMAIN runs[r].frames : j <= k
              /\ \A j \in 0..(Len(StepsOf(r)) - 1) :
                    j > k => CallsOf(calls, r, j) = <<>>
              /\ Len(runs[r].execution_context.steps) <= k + 1
              /\ Finished(r) =>
                    runs[r].execution_context.steps =
                        [j \in 1..(k + 1) |-> runs[r].frames[j - 1].ret]

\* C3 witness: a finished run of a two-step pathway whose first step failed
\* without on_failure, with exactly one recorded step result
HaltOnFailureWitness ==
    \E r \in SeqRuns :
        /\ runs[r].pc = "done"
        /\ Len(StepsOf(r)) = 2
        /\ StepAt(r, 0).on_failure = NoStep
        /\ Len(runs[r].execution_context.steps) = 1
        /\ runs[r].execution_context.steps[1].status = FAILURE


\* the steps of run r that returned a failure result
FailedSteps(r) ==
    {k \in DOMAIN runs[r].frames :
        runs[r].frames[k].pc = "returned" /\ runs[r].frames[k].ret.status = FAILURE}

\* C4: a sequential run halted by a failed step without on_failure ends with
\* status failed, and a run ends with status completed only if no step failed
\* without on_failure
HaltedRunFails ==
    \A r \in SeqRuns :
        runs[r].pc = "done" =>
            LET halted == \E k \in FailedSteps(r) : StepAt(r, k).on_failure = NoStep
                status == runs[r].execution_context.status
            IN /\ halted => status = "failed"
               /\ status = "completed" => ~halted

\* C5: the status of a run is failed only if an exception escaped the
\* orchestration of its steps; failure step results alone never make it failed
FailedOnlyOnError ==
    \A r \in DOMAIN runs :
        LET context == runs[r].execution_context
        IN /\ context.status = "failed" =>
                /\ runs[r].exception # NoneValue
                /\ context.error = runs[r].exception
           /\ runs[r].pc = "done" /\ runs[r].exception = NoneValue =>
                context.status = "completed"

\* C5 witness: a run that ended failed, after an exception
FailedOnlyOnErrorWitness ==
    \E r \in DOMAIN runs :
        /\ runs[r].pc = "done"
        /\ runs[r].execution_context.status = "failed"
        /\ runs[r].exception = "AttributeError"

\* C6: when a step of a sequential run has failed after exhausting its retries
\* and its on_failure names step j, the next step started is step j: no step
\* between the failed one and j is started, and the run does not end without j
OnFailureRoutes ==
    \A r \in SeqRuns : \A k \in FailedSteps(r) :
        LET j == StepAt(r, k).on_failure
        IN j # NoStep /\ j > k /\ j < Len(StepsOf(r)) =>
              /\ \A h \in DOMAIN runs[r].frames : h > k => h >= j
              /\ runs[r].pc = "done" => j \in DOMAIN runs[r].frames

RECURSIVE Threaded(_, _, _)
Threaded(p, results, n) ==
    IF n = 0 THEN p
    ELSE LET q == Threaded(p, results, n - 1)
         IN IF results[n].status = SUCCESS
            THEN DictUpdate(q, results[n].result)
            ELSE q

\* C8: the payload handed to a step of a sequential run is the initial payload
\* overlaid with the results of the successful steps before it, failed and
\* skipped steps leaving it unchanged, and the caller's initial payload object
\* keeps the value it had at the call
RunningPayloadThreads ==
    \A r \in SeqRuns :
        /\ runs[r].heap[InitialObj] = runs[r].given
        /\ \A i \in DOMAIN runs[r].frames :
              runs[r].frames[i].pc = "entry" =>
                  runs[r].heap[runs[r].frames[i].payload].items =
                      Threaded(runs[r].given.items, runs[r].execution_context.steps,
                               Len(runs[r].execution_context.steps))

\* C9: in a sequential run a step whose condition is present and evaluates
\* false makes no call to execute_task, returns a skipped result for its index
\* and leaves the running payload as it was; the result is recorded and the
\* run goes on with the next index
SkipLeavesPayload ==
    [][\A r \in SeqRuns : \A i \in DOMAIN runs[r].frames :
          LET step == StepAt(r, i)
              frame == runs[r].frames[i]
          IN /\ ( /\ frame.pc = "entry"
                  /\ runs'[r].frames[i].pc # "entry"
                  /\ step.condition.kind # "none"
                  /\ ~EvaluateCondition(step.condition, runs[r].heap[frame.payload].items) )
                => /\ calls' = calls
                   /\ runs'[r].frames[i].ret = SkippedResult(i, step)
                   /\ runs'[r].heap = runs[r].heap
             /\ ( /\ frame.pc = "returned"
                  /\ frame.ret.status = SKIPPED
                  /\ runs[r].pc = "await_step"
                  /\ runs[r].idx = i
                  /\ runs'[r].pc # "await_step" )
                => /\ runs'[r].execution_context.steps =
                         Append(runs[r].execution_context.steps, frame.ret)
                   /\ runs'[r].idx = i + 1
                   /\ runs'[r].pc = "seq_loop"
                   /\ runs'[r].heap = runs[r].heap]_vars

\* C10: whatever the order in which the branches of a parallel run returned
\* and whatever their outcomes, the step results of the finished run are one
\* per step, and the entry at position k is the result of the step of index k
ParallelResultsInOrder ==
    \A r \in ParRuns :
        Finished(r) /\ runs[r].exception = NoneValue =>
            LET steps == runs[r].execution_context.steps
            IN /\ Len(steps) = Len(StepsOf(r))
               /\ \A k \in 1..Len(steps) :
                     /\ steps[k].step_index = k - 1
                     /\ steps[k] = runs[r].frames[k - 1].ret
                     /\ steps[k].status \in {SUCCESS, FAILURE, SKIPPED}

\* C10 witness: a finished parallel run of which the first step was not the
\* first to return, with a failed, a skipped or a successful branch beside
\* another outcome
ParallelResultsInOrderWitness ==
    \E r \in ParRuns :
        /\ runs[r].pc = "done"
        /\ Len(runs[r].returned) = MaxBranches
        /\ runs[r].returned[1] # 0
        /\ \E k \in 1..MaxBranches :
              runs[r].execution_context.steps[k].status = FAILURE
        /\ \E k \in 1..MaxBranches :
              runs[r].execution_context.steps[k].status # FAILURE

\* C11: in a parallel run the payload of the task built for every step is the
\* initial payload as it was given, whatever the other branches have done, and
\* the caller's initial payload object keeps the value it had at the call
ParallelPayloadIsolated ==
    \A r \in ParRuns :
        /\ runs[r].heap[InitialObj] = runs[r].given
        /\ \A i \in DOMAIN runs[r].frames :
              LET frame == runs[r].frames[i]
              IN \/ frame.pc = "entry"
                 \/ frame.pc = "returned" /\ frame.ret.status = SKIPPED
                 \/ frame.task_payload = runs[r].given.items

\* C12: every parallel run whose branches were started ends with status
\* completed and with every step returned and recorded, whether its steps
\* succeeded, failed or were skipped: a failed step keeps no other step from
\* being started and run to its end
ParallelRunsComplete ==
    \A r \in Runs :
        [](r \in DOMAIN runs /\ IsParallel(r) /\ runs[r].given.type = "dict"
            => <>(/\ r \in DOMAIN runs
                  /\ runs[r].pc = "done"
                  /\ runs[r].execution_context.status = "completed"
                  /\ Len(runs[r].execution_context.steps) = Len(StepsOf(r))
                  /\ \A i \in 0..(Len(StepsOf(r)) - 1) :
                        /\ i \in DOMAIN runs[r].frames
                        /\ runs[r].frames[i].pc = "returned"))

\* C12 witness: a completed parallel run in which a step returned a failure
\* result first and another step was then executed with success
ParallelRunsCompleteWitness ==
    \E r \in ParRuns :
        /\ runs[r].pc = "done"
        /\ runs[r].execution_context.status = "completed"
        /\ Len(runs[r].returned) = MaxBranches
        /\ runs[r].frames[runs[r].returned[1]].ret.status = FAILURE
        /\ runs[r].frames[runs[r].returned[MaxBranches]].ret.status = SUCCESS

TerminalStatuses == {"completed", "failed"}

\* C13: the context of a run starts with status running and no step results;
\* its status only changes from running to completed or from running to
\* failed, a terminal status never changes, and completed_at is set exactly
\* when the status is terminal
StatusLifecycle ==
    [][\A r \in Runs :
          /\ r \notin DOMAIN runs /\ r \in DOMAIN runs' =>
                /\ runs'[r].execution_context.status = "running"
                /\ runs'[r].execution_context.steps = <<>>
                /\ ~runs'[r].execution_context.completed_at
          /\ r \in DOMAIN runs =>
                LET old == runs[r].execution_context
                    new == runs'[r].execution_context
                IN /\ old.status # new.status =>
                         old.status = "running" /\ new.status \in TerminalStatuses
                   /\ old.status \in TerminalStatuses => new = old
                   /\ new.completed_at <=> new.status \in TerminalStatuses]_vars

\* C13 witness: a run whose first step was skipped has recorded a result for
\* every step and become completed, with completed_at set
StatusLifecycleWitness ==
    \E r \in DOMAIN runs :
        /\ runs[r].execution_context.status = "completed"
        /\ runs[r].execution_context.completed_at
        /\ Len(runs[r].execution_context.steps) = MaxSteps
        /\ runs[r].execution_context.steps[1].status = SKIPPED

\* the runs of pathway p that have started and not ended
InProgress(p) ==
    {r \in DOMAIN runs : runs[r].pathway.pathway_id = p /\ runs[r].pc # "done"}

\* C14: for every pathway id, get_pathway_status returns a context exactly
\* when a run of that id is in progress, and the context it returns is one of
\* status running, also when two runs of the same id overlap
StatusIffInProgress ==
    \A p \in OverlapPathwayIds :
        /\ p \in DOMAIN active_pathways <=> InProgress(p) # {}
        /\ p \in DOMAIN active_pathways =>
              /\ active_pathways[p] \in InProgress(p)
              /\ GetPathwayStatus(p).status = "running"

\* C15: the step results of a run's context only grow: at every step of the
\* system the results recorded before are a prefix of those recorded after,
\* and there are never more results than the pathway has steps
StepsOnlyGrow ==
    [][\A r \in DOMAIN runs :
          LET old == runs[r].execution_context.steps
              new == runs'[r].execution_context.steps
          IN /\ Len(old) <= Len(new)
             /\ SubSeq(new, 1, Len(old)) = old
             /\ Len(new) <= Len(StepsOf(r))]_vars

\* C15 witness: a sequential run that has recorded the results of all steps
\* but the last, which it is executing
StepsOnlyGrowWitness ==
    \E r \in SeqRuns :
        /\ runs[r].pc = "await_step"
        /\ Len(StepsOf(r)) = MaxSteps
        /\ Len(runs[r].execution_context.steps) = MaxSteps - 1
        /\ runs[r].frames[MaxSteps - 1].pc = "invoking"

\* C16: a failure step result returned after the retries are exhausted carries
\* the error of the last attempt that was made, which is an error and not None
LastErrorReturned ==
    \A r \in DOMAIN runs : \A i \in DOMAIN runs[r].frames :
        LET frame == runs[r].frames[i]
            log == CallsOf(calls, r, i)
        IN frame.pc = "returned" /\ frame.ret.status = FAILURE =>
              /\ Len(log) >= 1
              /\ frame.error_of = Len(log)
              /\ frame.ret.error = log[Len(log)].error
              /\ frame.ret.error # NoneValue

\* C16 witness: a step has returned a failure result after as many failed
\* attempts as the largest retry_count allows
LastErrorReturnedWitness ==
    \E r \in DOMAIN runs : \E i \in DOMAIN runs[r].frames :
        /\ runs[r].frames[i].pc = "returned"
        /\ runs[r].frames[i].ret.status = FAILURE
        /\ Len(CallsOf(calls, r, i)) = MaxRetry + 1
        /\ runs[r].frames[i].error_of = MaxRetry + 1

\* C17: in the retry loop of a step a backoff sleep is begun after a failed
\* attempt exactly when another attempt follows: while the loop sleeps another
\* attempt is due, every attempt after the first was preceded by one sleep of
\* its own, and a step that has returned slept once less than it attempted
BackoffBetweenAttempts ==
    \A r \in DOMAIN runs : \A i \in DOMAIN runs[r].frames :
        LET frame == runs[r].frames[i]
            attempts == Len(CallsOf(calls, r, i))
            more == frame.retry_count <= StepAt(r, i).retry_count
        IN /\ frame.pc = "backoff" =>
                /\ more
                /\ frame.waits = attempts
                /\ CallsOf(calls, r, i)[attempts].outcome = FAILURE
           /\ frame.pc = "retry_loop" =>
                frame.waits = IF more THEN attempts ELSE attempts - 1
           /\ frame.pc = "invoking" => frame.waits = attempts - 1
           /\ frame.pc = "returned" /\ frame.ret.status # SKIPPED =>
                frame.waits = attempts - 1
           /\ frame.pc = "returned" /\ frame.ret.status = SKIPPED =>
                frame.waits = 0 /\ attempts = 0

\* C17 witness: a step has succeeded at its last attempt, after as many
\* backoff sleeps as it had failed attempts
BackoffBetweenAttemptsWitness ==
    \E r \in DOMAIN runs : \E i \in DOMAIN runs[r].frames :
        /\ runs[r].frames[i].pc = "returned"
        /\ runs[r].frames[i].ret.status = SUCCESS
        /\ Len(CallsOf(calls, r, i)) = MaxRetry + 1
        /\ runs[r].frames[i].waits = MaxRetry

\* the task ids of the execute_task calls that have started and not returned
InFlight ==
    {StepTaskId(runs[r].pathway.pathway_id, i) :
        <<r, i>> \in {<<q, j>> \in (DOMAIN runs) \X StepIndices :
                         /\ j \in DOMAIN runs[q].frames
                         /\ runs[q].frames[j].pc = "invoking"}}

\* C18: the task id of every execute_task call is in the active set from the
\* start of the call until its return and not after it: the active set holds
\* exactly the ids of the calls in flight, and is empty when there is none
ActiveWhileInFlight == active_tasks = InFlight

\* no registered node has type t
NoNodeOfType(t) ==
    \A k \in 1..Len(registered_nodes) : registered_nodes[k].magician_type # t

\* C19: an execute_task call for a task of whose type no node is registered
\* returns a failure result with the no-nodes error of that type, selects and
\* invokes no node, and leaves the registry as it was
NoNodesFailsFast ==
    [][\A r \in DOMAIN runs : \A i \in DOMAIN runs[r].frames :
          LET type == StepAt(r, i).magician
              before == CallsOf(calls, r, i)
              after == CallsOf(calls', r, i)
          IN Len(after) > Len(before) /\ NoNodeOfType(type) =>
                /\ after[Len(after)].outcome = FAILURE
                /\ after[Len(after)].node_id = NoneValue
                /\ after[Len(after)].error = "No " \o type \o " nodes available"
                /\ runs'[r].frames[i].last_error = after[Len(after)].error
                /\ runs'[r].frames[i].pc # "invoking"
                /\ registered_nodes' = registered_nodes]_vars

\* C19 witness: a step of type business has just been refused for want of a
\* business node while a node of another type is registered
NoNodesFailsFastWitness ==
    \E r \in DOMAIN runs : \E i \in DOMAIN runs[r].frames :
        LET log == CallsOf(calls, r, i)
        IN /\ runs[r].frames[i].pc = "retry_loop"
           /\ cpu = HolderOf(r, i)
           /\ Len(log) >= 1
           /\ log[Len(log)].outcome = FAILURE
           /\ StepAt(r, i).magician = "business"
           /\ registered_nodes # <<>>
           /\ NoNodeOfType("business")

\* the calls of a history that have returned
Completed(log) ==
    IF log # <<>> /\ log[Len(log)].outcome = "pending"
    THEN SubSeq(log, 1, Len(log) - 1)
    ELSE log

\* C20: once an execute_task call has returned, with success or with failure,
\* get_task_result of the task's id returns the result of the latest such call
ResultRecorded ==
    \A r \in DOMAIN runs : \A i \in DOMAIN runs[r].frames :
        LET done == Completed(CallsOf(calls, r, i))
            task_id == StepTaskId(runs[r].pathway.pathway_id, i)
        IN done # <<>> =>
              /\ task_id \in DOMAIN task_results
              /\ GetTaskResult(task_id).task_id = task_id
              /\ GetTaskResult(task_id).status = done[Len(done)].outcome
              /\ GetTaskResult(task_id).error = done[Len(done)].error


\* the execute_task call that step i of run r begins in this step, if it
\* selects a node
Dispatches(r, i) ==
    /\ Len(CallsOf(calls', r, i)) = Len(CallsOf(calls, r, i)) + 1
    /\ calls'[<<r, i>>][Len(calls'[<<r, i>>])].node_id # NoneValue

\* the node a dispatch of step i of run r selected
Dispatched(r, i) == calls'[<<r, i>>][Len(calls'[<<r, i>>])].node_id

\* C21: the node a task is dispatched to is in the registry, has the task's
\* type, and no node of that type in the registry has an earlier registered_at
DispatchToEarliestRegistered ==
    [][\A r \in Runs, i \in DispatchIndices :
          Dispatches(r, i) =>
             LET k == NodeIndex(registered_nodes, Dispatched(r, i))
             IN /\ k # 0
                /\ registered_nodes[k].magician_type = StepAt(r, i).magician
                /\ \A j \in 1..Len(registered_nodes) :
                      registered_nodes[j].magician_type = StepAt(r, i).magician
                         => registered_nodes[k].registered_at
                               <= registered_nodes[j].registered_at]_vars

\* the execute_task calls made so far, as (run, step, number) triples
LoggedCalls ==
    {x \in (DOMAIN runs) \X StepIndices \X (1..MaxRetry + 1) :
        <<x[1], x[2]>> \in DOMAIN calls /\ x[3] <= Len(calls[<<x[1], x[2]>>])}

CallAt(x) == calls[<<x[1], x[2]>>][x[3]]

OutlastsTimeout(call) ==
    /\ call.invocations >= 1
    /\ call.timeout # NoTimeout
    /\ call.timeout * 10 < InvocationTenths

\* C23: an execute_task call whose invocation outlasts the task's timeout
\* returns a failure result that carries an error
DeadlineEnforced ==
    \A x \in LoggedCalls :
        (OutlastsTimeout(CallAt(x)) /\ CallAt(x).outcome # "pending") =>
            /\ CallAt(x).outcome = FAILURE
            /\ CallAt(x).error # NoneValue

\* C24: no operation hands an error to its caller: every execute_task call
\* that returned gave a result with the task's id and status success or
\* failure, a failure carrying its error; every run that returned gave a
\* context with a terminal status, and the context of a run in which an
\* exception was raised is failed and carries that exception as its error
NoErrorPropagates ==
    /\ \A x \in LoggedCalls :
          /\ CallAt(x).task_id = StepTaskId(runs[x[1]].pathway.pathway_id, x[2])
          /\ CallAt(x).outcome \in {"pending", SUCCESS, FAILURE}
          /\ CallAt(x).outcome = FAILURE => CallAt(x).error # NoneValue
    /\ \A r \in DOMAIN runs :
          /\ runs[r].pc = "done" =>
                runs[r].execution_context.status \in {"completed", "failed"}
          /\ (runs[r].pc = "done" /\ runs[r].exception # NoneValue) =>
                /\ runs[r].execution_context.status = "failed"
                /\ runs[r].execution_context.error = runs[r].exception

\* a parallel run over a None payload with a step: the exception raised while
\* the branches are set up is returned as a failed context
NoErrorPropagatesWitness ==
    \E r \in DOMAIN runs :
        /\ IsParallel(r)
        /\ runs[r].pc = "done"
        /\ runs[r].heap[InitialObj] = PyNone
        /\ runs[r].execution_context.status = "failed"
        /\ runs[r].execution_context.error = "AttributeError"

\* the entries of node id n in a registry
EntriesOf(nodes, n) == {k \in 1..Len(nodes) : nodes[k].node_id = n}

\* the registry without the entries of node id n, in its order
Others(nodes, n) == SelectSeq(nodes, LAMBDA node : node.node_id # n)

\* C25: after register_node(n, t, webhook_url, metadata) the registry holds
\* exactly one entry for n, with type t, the given webhook_url, status active
\* and both stamps read during the call, registered_at no later than
\* last_heartbeat; an entry that was present is overwritten, the call returns
\* True and the entries of the other nodes are what they were
RegisterPostcondition ==
    [][\A n \in RegistryNodeIds, t \in MagicianTypes, url \in RegistryUrls,
         metadata \in RegistryMetadata, elapsed \in RegistryElapsed :
          RegisterNode(n, t, url, metadata, elapsed) =>
             /\ Cardinality(EntriesOf(registered_nodes', n)) = 1
             /\ \A k \in EntriesOf(registered_nodes', n) :
                   /\ registered_nodes'[k].magician_type = t
                   /\ registered_nodes'[k].webhook_url = url
                   /\ registered_nodes'[k].status = "active"
                   /\ clock <= registered_nodes'[k].registered_at
                   /\ registered_nodes'[k].registered_at
                         <= registered_nodes'[k].last_heartbeat
                   /\ registered_nodes'[k].last_heartbeat <= clock'
             /\ Len(registered_nodes') =
                   Len(registered_nodes)
                      + (IF EntriesOf(registered_nodes, n) = {} THEN 1 ELSE 0)
             /\ Others(registered_nodes', n) = Others(registered_nodes, n)
             /\ RegisterNodeReturn = TRUE]_vars

\* a node registered again with another webhook_url after a second node had
\* been registered: it holds the first place with the later registered_at
RegisterPostconditionWitness ==
    /\ Len(registered_nodes) = 2
    /\ registered_nodes[1].webhook_url = "http://b"
    /\ registered_nodes[1].registered_at > registered_nodes[2].registered_at

\* C26: unregister_node(n) on a registered id returns True and removes the
\* entry of n and nothing else, the other entries keeping their order, so that
\* no listing by type contains n; on an absent id it returns False and leaves
\* the registry as it is; an absent id comes back only by being registered
UnregisterPostcondition ==
    /\ [](\A n \in RegistryNodeIds :
            IF \E k \in 1..Len(registered_nodes) : registered_nodes[k].node_id = n
            THEN UnregisterNodeReturn(registered_nodes, n) = TRUE
            ELSE /\ UnregisterNodeReturn(registered_nodes, n) = FALSE
                 /\ Unregistered(registered_nodes, n) = registered_nodes)
    /\ [][/\ \A n \in RegistryNodeIds :
              (UnregisterNode(n) /\ EntriesOf(registered_nodes, n) # {}) =>
                 /\ Len(registered_nodes') = Len(registered_nodes) - 1
                 /\ registered_nodes' = Others(registered_nodes, n)
                 /\ \A t \in MagicianTypes :
                       \A k \in 1..Len(registered_nodes') :
                          registered_nodes'[k].magician_type = t
                             => registered_nodes'[k].node_id # n
         /\ \A n \in RegistryNodeIds :
              (EntriesOf(registered_nodes, n) = {} /\ EntriesOf(registered_nodes', n) # {}) =>
                 /\ registered_nodes' = Append(registered_nodes,
                                               registered_nodes'[Len(registered_nodes')])
                 /\ registered_nodes'[Len(registered_nodes')].registered_at = clock]_vars

\* the registry holds n2 alone and the clock last advanced in a registration
\* that is not n2's: n1 was registered after n2 and has been unregistered
UnregisterPostconditionWitness ==
    /\ Len(registered_nodes) = 1
    /\ registered_nodes[1].node_id = "n2"
    /\ registered_nodes[1].last_heartbeat < clock

\* C27: get_nodes_by_type(t) lists the registered nodes of type t and no
\* other, each once, in the order of their registered_at stamps
ListedByRegistrationTime ==
    \A t \in MagicianTypes :
        LET listed == GetNodesByType(registered_nodes, t)
        IN /\ \A k \in 1..Len(listed) : listed[k].magician_type = t
           /\ \A k \in 1..Len(registered_nodes) :
                 registered_nodes[k].magician_type = t =>
                    Cardinality({j \in 1..Len(listed) :
                                    listed[j].node_id = registered_nodes[k].node_id}) = 1
           /\ \A j, k \in 1..Len(listed) :
                 j < k => listed[j].registered_at <= listed[k].registered_at

\* C28: healthcheck_nodes returns one entry per registered node and no other;
\* a node whose heartbeat is a seconds old is healthy for a < 30, degraded for
\* 30 <= a < 60 and unhealthy for a >= 60, a node without a heartbeat is
\* unhealthy, and uptime_seconds is the time since registered_at
HealthSnapshot ==
    LET health_checks == HealthcheckNodes(registered_nodes, clock)
    IN /\ DOMAIN health_checks =
             {registered_nodes[k].node_id : k \in 1..Len(registered_nodes)}
       /\ \A k \in 1..Len(registered_nodes) :
             LET node == registered_nodes[k]
                 check == health_checks[node.node_id]
                 a == clock - node.last_heartbeat
             IN /\ check.node_id = node.node_id
                /\ a < 30 => check.status = "healthy"
                /\ (30 <= a /\ a < 60) => check.status = "degraded"
                /\ a >= 60 => check.status = "unhealthy"
                /\ check.uptime_seconds = clock - node.registered_at
                /\ check.last_heartbeat = node.last_heartbeat
       /\ HealthStatusOf(NoHeartbeat, clock) = "unhealthy"

\* a snapshot of two nodes whose heartbeats are 30 and 60 seconds old
HealthSnapshotWitness ==
    \E j, k \in 1..Len(registered_nodes) :
        /\ clock - registered_nodes[j].last_heartbeat = 30
        /\ clock - registered_nodes[k].last_heartbeat = 60
        /\ HealthcheckNodes(registered_nodes, clock)[registered_nodes[j].node_id].status
              = "degraded"
        /\ HealthcheckNodes(registered_nodes, clock)[registered_nodes[k].node_id].status
              = "unhealthy"

\* C29: the heartbeat of a registered node is recorded in the registry: the
\* node's last_heartbeat there is no older than the last heartbeat the node
\* sent, so a node whose last heartbeat is less than 30 seconds old is healthy
\* in the snapshot
HeartbeatRecorded ==
    \A k \in 1..Len(registered_nodes) :
        LET node == registered_nodes[k]
        IN node.node_id \in DOMAIN node_heartbeat =>
              /\ node.last_heartbeat >= node_heartbeat[node.node_id]
              /\ clock - node_heartbeat[node.node_id] < 30 =>
                    HealthcheckNodes(registered_nodes, clock)[node.node_id].status
                       = "healthy"

\* C30: submit_task(task) puts the task at the tail of the queue: the queue
\* is one longer, the tasks queued before keep their places, the call returns
\* the task's own task_id, and the active set, the results store and the
\* registry are what they were
SubmitAppends ==
    [][\A task \in QueueTasks :
          SubmitTask(task) =>
             /\ Len(task_queue') = Len(task_queue) + 1
             /\ SubSeq(task_queue', 1, Len(task_queue)) = task_queue
             /\ task_queue'[Len(task_queue')] = task
             /\ SubmitTaskReturn(task) = task.task_id
             /\ active_tasks' = active_tasks
             /\ task_results' = task_results
             /\ registered_nodes' = registered_nodes]_vars

\* three submissions with a node registered: t2, then t1, then t1 again
SubmitAppendsWitness ==
    /\ Len(registered_nodes) = 1
    /\ Len(task_queue) = 3
    /\ task_queue[1].task_id = "t2"
    /\ task_queue[2].task_id = "t1"
    /\ task_queue[3] = task_queue[2]

\* the tasks in the queue
Queued == {task_queue[k] : k \in 1..Len(task_queue)}

\* C31: every task given to submit_task is eventually executed and then has
\* a result that get_task_result returns
SubmittedGetsResult ==
    \A task \in LoopTasks :
        [](task \in Queued => <>(task.task_id \in DOMAIN task_results))

\* C32: the evaluation of a step's condition raises nothing and leaves the
\* payload object as it was; an expression that does not parse or names a
\* key the payload lacks is false, so the step returns a skipped result and
\* the run goes on
ConditionEvaluationIsPure ==
    [][\A r \in Runs : r \in DOMAIN runs => \A i \in DOMAIN runs[r].frames :
          LET step == StepAt(r, i)
              frame == runs[r].frames[i]
              payload == runs[r].heap[frame.payload]
          IN (frame.pc = "entry" /\ runs'[r].frames[i].pc # "entry") =>
                /\ runs'[r].heap[frame.payload] = payload
                /\ runs'[r].exception = runs[r].exception
                /\ ( \/ step.condition.kind = "malformed"
                     \/ /\ step.condition.kind = "name"
                        /\ step.condition.key \notin DOMAIN payload.items )
                   => /\ runs'[r].frames[i].pc = "returned"
                      /\ runs'[r].frames[i].ret = SkippedResult(i, step)]_vars

\* C33: while the node invocation of one submitted task is pending, the
\* dispatcher can start executing another queued task: whenever the loop's
\* task is being invoked and a further task is queued, the loop's next
\* dequeue-and-execute step is possible without waiting for the invocation
\* to return.
DispatcherOverlapsTasks ==
    (loop.pc = "invoking" /\ cpu = NoHolder /\ task_queue # <<>>)
        => ENABLED (LoopExecuteInvoke \/ LoopExecuteNoNodes)


\* a registry entry with every key register_node writes
WholeEntry(node) ==
    /\ DOMAIN node = {"node_id", "magician_type", "webhook_url", "metadata", "status",
                      "registered_at", "last_heartbeat"}
    /\ node.node_id \in NodeIds \cup DispatchNodeIds
    /\ node.magician_type \in MagicianTypes
    /\ node.status = "active"
    /\ node.registered_at <= node.last_heartbeat
    /\ node.last_heartbeat <= clock

\* a stored result with every field of TaskResult, under its own task_id
WholeResult(t, result) ==
    /\ DOMAIN result = {"task_id", "status", "result", "error"}
    /\ result.task_id = t
    /\ result.status \in {SUCCESS, FAILURE}
    /\ result.status = SUCCESS => (result.result = SuccessResult /\ result.error = NoneValue)
    /\ result.status = FAILURE => result.error # NoneValue

\* the keys of the registry whose entry a step changes, adds or removes
ChangedNodes ==
    {n \in NodeIds :
        \/ (EntriesOf(registered_nodes, n) = {}) # (EntriesOf(registered_nodes', n) = {})
        \/ /\ EntriesOf(registered_nodes, n) # {}
           /\ EntriesOf(registered_nodes', n) # {}
           /\ registered_nodes[NodeIndex(registered_nodes, n)]
                 # registered_nodes'[NodeIndex(registered_nodes', n)]}

\* the task ids whose stored result a step changes or adds
ChangedResults ==
    {t \in (DOMAIN task_results) \cup (DOMAIN task_results') :
        \/ t \notin DOMAIN task_results
        \/ t \notin DOMAIN task_results'
        \/ task_results[t] # task_results'[t]}

\* C34: under every interleaving of register, unregister and the execute calls
\* of overlapping pathway runs, the node map holds one whole entry per node id
\* and the results store one whole result per task id, what
\* get_nodes_by_type and get_task_result read is made of such entries and
\* results, and every step changes at most one entry of the node map, one
\* member of the active set and one stored result
MutationsAreAtomic ==
    /\ [](/\ \A k \in DOMAIN registered_nodes :
                /\ WholeEntry(registered_nodes[k])
                /\ EntriesOf(registered_nodes, registered_nodes[k].node_id) = {k}
          /\ \A t \in DOMAIN task_results : WholeResult(t, task_results[t])
          /\ \A t \in MagicianTypes :
                \A k \in DOMAIN GetNodesByType(registered_nodes, t) :
                   /\ WholeEntry(GetNodesByType(registered_nodes, t)[k])
                   /\ GetNodesByType(registered_nodes, t)[k].magician_type = t
          /\ \A t \in DOMAIN task_results : WholeResult(t, GetTaskResult(t)))
    /\ [][/\ Cardinality(ChangedNodes) <= 1
          /\ Cardinality(ChangedResults) <= 1
          /\ Cardinality((active_tasks \ active_tasks') \cup (active_tasks' \ active_tasks)) <= 1
          /\ DOMAIN task_results \subseteq DOMAIN task_results']_vars

\* the call of one run has returned and its result is stored while the
\* invocation of the other run is pending and the node both were dispatched
\* to has been unregistered
MutationsAreAtomicWitness ==
    /\ task_results # <<>>
    /\ registered_nodes = <<>>
    /\ active_tasks # {}
    /\ \E r \in OverlapRuns :
          /\ r \in DOMAIN runs
          /\ \E i \in DOMAIN runs[r].frames : runs[r].frames[i].pc = "invoking"


\* C35: a task is moved into the active set: no task_id is in the pending
\* queue and in the active set at once, whether execute_task is called by the
\* loop of start or directly on a task that was submitted before
MovedNotCopied ==
    \A k \in DOMAIN task_queue : task_queue[k].task_id \notin active_tasks


\* C36: the lookup of a task's result answers NotFound only for an id that
\* was never submitted: for a submitted task it gives the recorded result's
\* status when a result is recorded and the in-progress answer otherwise,
\* while the task is queued, while it is active and after it has finished
LookupKnowsSubmitted ==
    \A k \in DOMAIN submitted :
        LET task_id == submitted[k].task_id
        IN /\ ApiGetTaskResult(task_id) # NotFound
           /\ task_id \in DOMAIN task_results =>
                 ApiGetTaskResult(task_id) = task_results[task_id].status
           /\ task_id \notin DOMAIN task_results =>
                 ApiGetTaskResult(task_id) = "in_progress"


\* the tasks the loop has dequeued, in the order it dequeued them
Dequeued == [k \in 1..Len(executed) |-> executed[k].task]

\* C37: while the loop of start runs, tasks leave the pending queue at its head
\* in submission order, each queued entry is dequeued and executed once, and
\* the loop has finished the execution of a dequeued task when it dequeues the
\* next: the tasks dequeued so far followed by the queue are the tasks
\* submitted so far, only the last dequeued task can be in execution, a
\* dequeue takes the head of the queue while no execution is pending, and a
\* task that is queued while the loop runs is dequeued unless the loop exits
DequeuedInOrderOnce ==
    /\ [](/\ Dequeued \o task_queue = submitted
          /\ \A k \in 1..Len(executed) :
                executed[k].outcome = "pending" =>
                   (k = Len(executed) /\ loop.pc = "invoking" /\ loop.task = executed[k].task)
          /\ loop.pc = "invoking" =>
                (executed # <<>> /\ executed[Len(executed)].outcome = "pending"))
    /\ [][Len(executed') # Len(executed) =>
             /\ task_queue # <<>>
             /\ executed' = Append(executed, executed'[Len(executed')])
             /\ executed'[Len(executed')].task = task_queue[1]
             /\ task_queue' = SubSeq(task_queue, 2, Len(task_queue))
             /\ \A k \in 1..Len(executed) : executed[k].outcome # "pending"]_vars
    /\ \A task \in LoopTasks :
          []((task \in Queued /\ loop.pc \notin {"idle", "exited"}) =>
                <>(\/ \E k \in 1..Len(executed) : executed[k].task = task
                   \/ loop.pc = "exited"))

\* the loop has executed two tasks, the one submitted first before the other,
\* and the queue is empty
DequeuedInOrderOnceWitness ==
    /\ Len(submitted) = 2
    /\ Len(executed) = 2
    /\ executed[1].task = submitted[1]
    /\ executed[2].task = submitted[2]
    /\ executed[1].outcome = SUCCESS
    /\ executed[2].outcome \in {SUCCESS, FAILURE}
    /\ task_queue = <<>>


\* C38: after stop is called while the loop of start runs, the tasks that were
\* queued at the call are dequeued and executed before the loop exits, and
\* the loop leaves none of its tasks in the active set or in execution
StopDrainsQueue ==
    loop.pc = "exited" =>
        /\ \A k \in DOMAIN queued_at_stop :
              \E j \in DOMAIN executed :
                 /\ executed[j].task = queued_at_stop[k]
                 /\ executed[j].outcome # "pending"
        /\ \A j \in DOMAIN executed : executed[j].outcome # "pending"


\* C39: for every retry_count PathwayStep accepts, a step that returns a
\* failure result has made at least one execute_task call, and the error of
\* the result is the error of the last of its calls
FailureFollowsAttempt ==
    \A r \in DOMAIN runs : \A i \in DOMAIN runs[r].frames :
        LET frame == runs[r].frames[i]
        IN (frame.pc = "returned" /\ frame.ret.status = FAILURE) =>
              /\ Len(CallsOf(calls, r, i)) >= 1
              /\ frame.ret.error # NoneValue
              /\ frame.ret.error = CallsOf(calls, r, i)[Len(CallsOf(calls, r, i))].error


\* C40: every registry entry has a last_heartbeat, stamped by the register
\* call that stamped its registered_at and no earlier than it; no other step
\* changes it; the health class of a node is the class of the time since
\* that stamp, so a node is healthy in every snapshot taken less than 30
\* seconds after its registration, and the snapshot never meets an entry
\* without a heartbeat
HeartbeatStampedAtRegistration ==
    /\ [](\A k \in 1..Len(registered_nodes) :
             LET node == registered_nodes[k]
                 status == HealthcheckNodes(registered_nodes, clock)[node.node_id].status
             IN /\ node.last_heartbeat # NoHeartbeat
                /\ node.registered_at <= node.last_heartbeat
                /\ node.last_heartbeat <= clock
                /\ clock - node.registered_at < 30 => status = "healthy"
                /\ status = (IF clock - node.last_heartbeat < 30 THEN "healthy"
                             ELSE IF clock - node.last_heartbeat < 60 THEN "degraded"
                             ELSE "unhealthy"))
    /\ [][\A n \in HealthNodeIds :
             (EntriesOf(registered_nodes, n) # {} /\ EntriesOf(registered_nodes', n) # {}) =>
                LET old == registered_nodes[NodeIndex(registered_nodes, n)]
                    new == registered_nodes'[NodeIndex(registered_nodes', n)]
                IN new.last_heartbeat # old.last_heartbeat =>
                      /\ new.registered_at = clock
                      /\ new.last_heartbeat >= clock]_vars

\* a node registered 29 seconds ago that has just sent a heartbeat: its entry
\* still has the stamp of the registration and the snapshot has it healthy
HeartbeatStampedAtRegistrationWitness ==
    \E k \in 1..Len(registered_nodes) :
        LET node == registered_nodes[k]
        IN /\ clock - node.registered_at = 29
           /\ node.last_heartbeat = node.registered_at
           /\ node.node_id \in DOMAIN node_heartbeat
           /\ node_heartbeat[node.node_id] = clock
           /\ HealthcheckNodes(registered_nodes, clock)[node.node_id].status = "healthy"

====
